---------------------------- MODULE Spec2Model ----------------------------
(***************************************************************************)
(* A model of ServeStatic (src/servestatic): the file index and resolver   *)
(* of base.py, the StaticFile / Redirect responders of responders.py and   *)
(* the WSGI / ASGI entry points of wsgi.py and asgi.py.                    *)
(*                                                                         *)
(* Python values are represented as follows.                               *)
(*   str            a TLA+ string (TLC evaluates Len, \o, SubSeq on them)  *)
(*   None / value   the empty tuple << >> / the one-element tuple <<v>>    *)
(*   dict           a function whose DOMAIN is the set of keys             *)
(*   list of pairs  a sequence of <<name, value>> tuples                   *)
(*   exception      a record whose field "type" names the exception class  *)
(***************************************************************************)
EXTENDS Integers, Sequences, FiniteSets, TLC

None == << >>

Some(v) == << v >>

\* ------------------------------------------------------------------------
\* Python str methods used by the code
\* ------------------------------------------------------------------------

CharAt(s, i) == SubSeq(s, i, i)

startswith(s, p) == Len(p) <= Len(s) /\ SubSeq(s, 1, Len(p)) = p

endswith(s, p) == Len(p) <= Len(s) /\ SubSeq(s, Len(s) - Len(p) + 1, Len(s)) = p

\* s[n:]
DropFirst(s, n) == IF n >= Len(s) THEN "" ELSE SubSeq(s, n + 1, Len(s))

\* s[:-n] for n > 0
DropLast(s, n) == IF n >= Len(s) THEN "" ELSE SubSeq(s, 1, Len(s) - n)

\* s[-n:] for n > 0
LastChars(s, n) == IF n >= Len(s) THEN s ELSE SubSeq(s, Len(s) - n + 1, Len(s))

\* The least index at which `sub` occurs in s, 0 when it does not (str.find + 1).
Find(s, sub) ==
    LET hits == {i \in 1..(Len(s) - Len(sub) + 1) : SubSeq(s, i, i + Len(sub) - 1) = sub}
    IN  IF hits = {} THEN 0 ELSE CHOOSE i \in hits : \A j \in hits : i <= j

Contains(s, sub) == Find(s, sub) # 0

\* str.partition(sep) as the triple <<head, sep or "", tail>>
partition(s, sep) ==
    LET At(i) == IF i = 0 THEN <<s, "", "">>
                 ELSE <<SubSeq(s, 1, i - 1), sep, DropFirst(s, i + Len(sep) - 1)>>
    IN  At(Find(s, sep))

RECURSIVE lstrip(_, _)
lstrip(s, chars) ==
    IF s # "" /\ Contains(chars, CharAt(s, 1)) THEN lstrip(DropFirst(s, 1), chars) ELSE s

RECURSIVE rstrip(_, _)
rstrip(s, chars) ==
    IF s # "" /\ Contains(chars, CharAt(s, Len(s))) THEN rstrip(DropLast(s, 1), chars) ELSE s

strip(s, chars) == rstrip(lstrip(s, chars), chars)

\* The whitespace str.strip() and int() remove (space and tab of the ASCII set).
Whitespace == " \t"

\* str.split("/") as a sequence of components
RECURSIVE split(_, _)
split(s, sep) ==
    LET Parts(p) == IF p[2] = "" THEN <<s>> ELSE <<p[1]>> \o split(p[3], sep)
    IN  Parts(partition(s, sep))

\* sep.join(comps)
RECURSIVE join(_, _)
join(sep, comps) ==
    IF comps = <<>> THEN ""
    ELSE IF Len(comps) = 1 THEN comps[1]
    ELSE comps[1] \o sep \o join(sep, Tail(comps))

\* str.replace(old, new) for a one-character `old`
RECURSIVE replace(_, _, _)
replace(s, old, new) ==
    IF s = "" THEN ""
    ELSE (IF CharAt(s, 1) = old THEN new ELSE CharAt(s, 1)) \o replace(DropFirst(s, 1), old, new)

Digits == "0123456789"

HexDigits == "0123456789abcdef"

\* str(n) / f"{n}" for n >= 0
RECURSIVE str(_)
str(n) == IF n < 10 THEN CharAt(Digits, n + 1) ELSE str(n \div 10) \o CharAt(Digits, (n % 10) + 1)

\* f"{n:x}" for n >= 0
RECURSIVE hex(_)
hex(n) == IF n < 16 THEN CharAt(HexDigits, n + 1) ELSE hex(n \div 16) \o CharAt(HexDigits, (n % 16) + 1)

IsDigits(s) == s # "" /\ \A i \in 1..Len(s) : Contains(Digits, CharAt(s, i))

RECURSIVE DigitsValue(_)
DigitsValue(s) ==
    IF s = "" THEN 0 ELSE 10 * DigitsValue(DropLast(s, 1)) + (Find(Digits, CharAt(s, Len(s))) - 1)

\* int(s): surrounding whitespace and one sign are accepted, then decimal
\* digits; anything else is a ValueError, given as None.
int(s) ==
    LET Signed(sign, body) ==
            IF ~IsDigits(body) THEN None
            ELSE Some(IF sign = "-" THEN 0 - DigitsValue(body) ELSE DigitsValue(body))
        Stripped(t) ==
            IF t # "" /\ Head(t) \in {"+", "-"} THEN Signed(Head(t), Tail(t))
            ELSE Signed("", t)
    IN  Stripped(strip(s, Whitespace))

Min(a, b) == IF a <= b THEN a ELSE b

Max(a, b) == IF a >= b THEN a ELSE b


UpperCase == "ABCDEFGHIJKLMNOPQRSTUVWXYZ"

LowerCase == "abcdefghijklmnopqrstuvwxyz"

\* The lower-case letter of each upper-case letter, and the reverse
ToLower == [c \in {CharAt(UpperCase, i) : i \in 1..26} |->
               CharAt(LowerCase, CHOOSE i \in 1..26 : CharAt(UpperCase, i) = c)]

ToUpper == [c \in {CharAt(LowerCase, i) : i \in 1..26} |->
               CharAt(UpperCase, CHOOSE i \in 1..26 : CharAt(LowerCase, i) = c)]

\* s with every character in DOMAIN map replaced by its image
RECURSIVE MapChars(_, _)
MapChars(s, map) ==
    IF s = "" THEN ""
    ELSE (IF Head(s) \in DOMAIN map THEN map[Head(s)] ELSE Head(s)) \o MapChars(Tail(s), map)

\* The header names of the responses and requests: their lower- and
\* upper-case forms are computed once and looked up afterwards
TabulatedNames ==
    { "Content-Type", "Cache-Control", "Access-Control-Allow-Origin", "Last-Modified",
      "ETag", "Vary", "Content-Length", "Content-Encoding", "Content-Range", "Allow",
      "Location", "Content-Location", "Date", "Expires",
      "ACCEPT_ENCODING", "IF_MODIFIED_SINCE", "IF_NONE_MATCH", "RANGE",
      "accept-encoding", "if-modified-since", "if-none-match", "range" }

LowerTable == [s \in TabulatedNames |-> MapChars(s, ToLower)]

UpperTable == [s \in TabulatedNames |-> MapChars(s, ToUpper)]

lower(s) == IF s \in TabulatedNames THEN LowerTable[s] ELSE MapChars(s, ToLower)

upper(s) == IF s \in TabulatedNames THEN UpperTable[s] ELSE MapChars(s, ToUpper)

\* ------------------------------------------------------------------------
\* wsgiref.headers.Headers: an ordered list of (name, value) pairs whose
\* lookups compare names case-insensitively
\* ------------------------------------------------------------------------

HeadersGet(h, name) ==
    LET hits == {i \in 1..Len(h) : lower(h[i][1]) = lower(name)}
    IN  IF hits = {} THEN None
        ELSE Some(h[CHOOSE i \in hits : \A j \in hits : i <= j][2])

HeadersHas(h, name) == HeadersGet(h, name) # None

RECURSIVE HeadersDel(_, _)
HeadersDel(h, name) ==
    IF h = <<>> THEN <<>>
    ELSE IF lower(Head(h)[1]) = lower(name) THEN HeadersDel(Tail(h), name)
    ELSE <<Head(h)>> \o HeadersDel(Tail(h), name)

\* headers[name] = value: every pair of that name is removed, the new pair appended
HeadersSet(h, name, value) == Append(HeadersDel(h, name), <<name, value>>)

\* The names of a header list, as a set
HeaderNames(h) == {h[i][1] : i \in 1..Len(h)}

\* ------------------------------------------------------------------------
\* Dates.  An HTTP date is written "@<minutes>:<seconds> <zone>".
\* formatdate(usegmt=True) writes the whole seconds of a float timestamp
\* with the zone GMT; parsedate gives the written fields as a tuple, the
\* zone dropped, or None.  Timestamps (st_mtime) count half seconds.
\* ------------------------------------------------------------------------

formatdate(timeval) ==
    LET secs == timeval \div 2
    IN  "@" \o str(secs \div 60) \o ":" \o str(secs % 60) \o " GMT"

parsedate(data) ==
    LET Fields(p, f) ==
            IF /\ startswith(p[1], "@") /\ p[2] = " " /\ p[3] # ""
               /\ IsDigits(f[1]) /\ f[2] = ":" /\ IsDigits(f[3])
            THEN Some(<<DigitsValue(f[1]), DigitsValue(f[3])>>)
            ELSE None
        Words(p) == Fields(p, partition(DropFirst(p[1], 1), ":"))
    IN  IF data = None THEN None ELSE Words(partition(data[1], " "))

\* a > b on the tuples parsedate gives
TimeTupleGT(a, b) == a[1] > b[1] \/ (a[1] = b[1] /\ a[2] > b[2])

\* a >= b on the tuples parsedate gives (Python compares them field by field)
TimeTupleGE(a, b) == a[1] > b[1] \/ (a[1] = b[1] /\ a[2] >= b[2])

\* int(time.mktime(t)) of a parsed date, the server's zone being UTC
mktime(t) == 60 * t[1] + t[2]

\* ------------------------------------------------------------------------
\* The filesystem: a function from the paths that exist to
\* [kind: "file" | "dir" | "other", content: str, mtime: Nat]
\* ------------------------------------------------------------------------

VARIABLES fs

PathAncestors(fsys, path) ==
    {SubSeq(path, 1, i - 1) : i \in {j \in 2..Len(path) : CharAt(path, j) = "/"}}

\* os.stat(path): errno is "OK", "ENOENT" or "ENOTDIR"
os_stat(fsys, path) ==
    LET bare    == IF Len(path) > 1 THEN rstrip(path, "/") ELSE path
        blocked == \E a \in PathAncestors(fsys, path) :
                       a \in DOMAIN fsys /\ fsys[a].kind # "dir"
    IN  IF blocked THEN [errno |-> "ENOTDIR", st_mode |-> "", st_size |-> 0, st_mtime |-> 0]
        ELSE IF bare \notin DOMAIN fsys
        THEN [errno |-> "ENOENT", st_mode |-> "", st_size |-> 0, st_mtime |-> 0]
        ELSE [errno    |-> "OK",
              st_mode  |-> fsys[bare].kind,
              st_size  |-> Len(fsys[bare].content),
              st_mtime |-> fsys[bare].mtime]

os_path_exists(fsys, path) == os_stat(fsys, path).errno = "OK"

os_path_isfile(fsys, path) ==
    LET S_ISREG(st) == st.errno = "OK" /\ st.st_mode = "file"
    IN  S_ISREG(os_stat(fsys, path))

os_path_isdir(fsys, path) ==
    LET S_ISDIR(st) == st.errno = "OK" /\ st.st_mode = "dir"
    IN  S_ISDIR(os_stat(fsys, path))

os_path_join(a, b) ==
    IF startswith(b, "/") THEN b
    ELSE IF a = "" \/ endswith(a, "/") THEN a \o b
    ELSE a \o "/" \o b

\* os.path.commonprefix((a, b)): the longest common leading string
RECURSIVE CommonLen(_, _, _)
CommonLen(a, b, n) ==
    IF n < Len(a) /\ n < Len(b) /\ CharAt(a, n + 1) = CharAt(b, n + 1)
    THEN CommonLen(a, b, n + 1)
    ELSE n

os_path_commonprefix(a, b) == SubSeq(a, 1, CommonLen(a, b, 0))

\* dict(scantree(root)): the stat result of every entry below root that is
\* not a directory
scantree(fsys, root) ==
    LET found == {p \in DOMAIN fsys : startswith(p, root) /\ fsys[p].kind # "dir"}
    IN  [p \in found |-> os_stat(fsys, p)]

\* ------------------------------------------------------------------------
\* responders.py: FileEntry and the error classes.
\* NotARegularFileError > MissingFileError > IsDirectoryError (subclassing)
\* ------------------------------------------------------------------------

Raise(type) == [type |-> type]

IsError(v) == v.type \in {"NotARegularFileError", "MissingFileError", "IsDirectoryError",
                          "OSError", "ValueError"}

\* `except MissingFileError` / contextlib.suppress(MissingFileError)
IsMissingFileError(v) == v.type \in {"MissingFileError", "IsDirectoryError"}

\* stat_function(path): os.stat, or stat_cache.__getitem__ (KeyError when absent)
stat_function(fsys, path, stat_cache) ==
    IF stat_cache = None THEN os_stat(fsys, path)
    ELSE IF path \in DOMAIN stat_cache[1] THEN stat_cache[1][path]
    ELSE [errno |-> "KeyError", st_mode |-> "", st_size |-> 0, st_mtime |-> 0]

stat_regular_file(fsys, path, stat_cache) ==
    LET Checked(stat_result) ==
            IF stat_result.errno = "KeyError" THEN Raise("MissingFileError")
            ELSE IF stat_result.errno \in {"ENOENT", "ENAMETOOLONG"}
            THEN Raise("MissingFileError")
            ELSE IF stat_result.errno # "OK" THEN Raise("OSError")
            ELSE IF stat_result.st_mode # "file"
            THEN (IF stat_result.st_mode = "dir" THEN Raise("IsDirectoryError")
                  ELSE Raise("NotARegularFileError"))
            ELSE [type |-> "stat_result", st_size |-> stat_result.st_size,
                  st_mtime |-> stat_result.st_mtime]
    IN  Checked(stat_function(fsys, path, stat_cache))

FileEntry(fsys, path, stat_cache) ==
    LET Entry(st) ==
            IF IsError(st) THEN st
            ELSE [type |-> "FileEntry", path |-> path, size |-> st.st_size,
                  mtime |-> st.st_mtime]
    IN  Entry(stat_regular_file(fsys, path, stat_cache))

\* ------------------------------------------------------------------------
\* responders.py: Response and the two shared responses
\* ------------------------------------------------------------------------

\* Response.file: no file, an open file, or a slice [start, end] of one
NoFile == [kind |-> "none", path |-> "", start |-> 0, end |-> 0]

OpenFile(path) == [kind |-> "file", path |-> path, start |-> 0, end |-> 0]

\* A slice that stops before its end byte
SlicedFileEndExclusive(file_handle, start, end) ==
    [kind |-> "sliced", path |-> file_handle.path, start |-> start, end |-> end - 1]

SlicedFile(file_handle, start, end) ==
    [kind |-> "sliced", path |-> file_handle.path, start |-> start, end |-> end]

Response(status, headers, file) ==
    [type |-> "Response", status |-> status, headers |-> headers, file |-> file]

NOT_ALLOWED_RESPONSE == Response(405, << <<"Allow", "GET, HEAD">> >>, NoFile)

NOT_MODIFIED_HEADERS == <<"Cache-Control", "Content-Location", "Date", "ETag", "Expires", "Vary">>

\* ------------------------------------------------------------------------
\* responders.py: building a StaticFile
\* ------------------------------------------------------------------------

\* files = {None: FileEntry(path)} plus every encoded alternative that exists:
\* [type |-> "files", items |-> <<encoding, FileEntry>> pairs in insertion
\* order ("" for None)].  An error of the primary entry, or an error of an
\* alternative that is no MissingFileError, is the result instead.
RECURSIVE get_alternative_stats(_, _, _, _)
get_alternative_stats(fsys, path, encodings, stat_cache) ==
    IF encodings = <<>> THEN [type |-> "files", items |-> <<>>]
    ELSE LET Both(entry, rest) ==
                 IF IsError(entry) /\ ~IsMissingFileError(entry) THEN entry
                 ELSE IF IsError(rest) \/ IsError(entry) THEN rest
                 ELSE [type  |-> "files",
                       items |-> << <<Head(encodings)[1], entry>> >> \o rest.items]
         IN  Both(FileEntry(fsys, Head(encodings)[2], stat_cache),
                  get_alternative_stats(fsys, path, Tail(encodings), stat_cache))

get_file_stats(fsys, path, encodings, stat_cache) ==
    LET Both(main, alts) ==
            IF IsError(main) THEN main
            ELSE IF IsError(alts) THEN alts
            ELSE [type |-> "files", items |-> << <<"", main>> >> \o alts.items]
    IN  Both(FileEntry(fsys, path, stat_cache),
             get_alternative_stats(fsys, path, encodings, stat_cache))

get_headers(headers_list, files) ==
    LET main_file == files[1][2]
        WithETag(headers, last_modified) ==
            IF ~HeadersHas(headers, "ETag") /\ last_modified # None
            THEN HeadersSet(headers, "ETag",
                     "\"" \o hex(mktime(last_modified[1])) \o "-"
                          \o hex(main_file.size) \o "\"")
            ELSE headers
        WithLastModified(headers) ==
            IF ~HeadersHas(headers, "Last-Modified") /\ main_file.mtime # 0
            THEN HeadersSet(headers, "Last-Modified", formatdate(main_file.mtime))
            ELSE headers
        LastModified(headers) == WithETag(headers, parsedate(HeadersGet(headers, "Last-Modified")))
        WithVary(headers) ==
            IF Len(files) > 1 THEN HeadersSet(headers, "Vary", "Accept-Encoding") ELSE headers
    IN  LastModified(WithLastModified(WithVary(headers_list)))

RECURSIVE PickHeaders(_, _)
PickHeaders(names, headers) ==
    LET Pair(name, value) == IF value = None THEN <<>> ELSE << <<name, value[1]>> >>
    IN  IF names = <<>> THEN <<>>
        ELSE Pair(Head(names), HeadersGet(headers, Head(names)))
             \o PickHeaders(Tail(names), headers)

\* A not-modified response that carries every header of the file
get_not_modified_response_with_all_headers(headers) == Response(304, headers, NoFile)

get_not_modified_response(headers) ==
    Response(304, PickHeaders(NOT_MODIFIED_HEADERS, headers), NoFile)

\* An insertion that puts an item before the items of its own size
RECURSIVE InsertBeforeEqual(_, _)
InsertBeforeEqual(sorted, item) ==
    IF sorted = <<>> THEN <<item>>
    ELSE IF item[2].size <= Head(sorted)[2].size THEN <<item>> \o sorted
    ELSE <<Head(sorted)>> \o InsertBeforeEqual(Tail(sorted), item)

\* The files in the order of the dict, not sorted
files_unsorted(files) == files

\* sorted(files.items(), key=size): a stable sort, ascending
RECURSIVE InsertBySize(_, _)
InsertBySize(sorted, item) ==
    IF sorted = <<>> THEN <<item>>
    ELSE IF item[2].size < Head(sorted)[2].size THEN <<item>> \o sorted
    ELSE <<Head(sorted)>> \o InsertBySize(Tail(sorted), item)

RECURSIVE files_by_size(_)
files_by_size(files) ==
    IF files = <<>> THEN <<>>
    ELSE InsertBySize(files_by_size(SubSeq(files, 1, Len(files) - 1)), files[Len(files)])

\* An alternative whose pattern is made from the encoding also when there is
\* none: the primary file gets the pattern \bNone\b
Alternative_pattern_of_none(base_headers, encoding, file_entry) ==
    LET WithEncoding(headers) ==
            IF encoding # "" THEN HeadersSet(headers, "Content-Encoding", encoding)
            ELSE headers
    IN  <<IF encoding = "" THEN "None" ELSE encoding, file_entry.path,
          WithEncoding(HeadersSet(base_headers, "Content-Length", str(file_entry.size)))>>

\* One alternative: <<encoding of encoding_re ("" for the empty pattern), path, headers>>
Alternative(base_headers, encoding, file_entry) ==
    LET WithEncoding(headers) ==
            IF encoding # "" THEN HeadersSet(headers, "Content-Encoding", encoding)
            ELSE headers
    IN  <<encoding, file_entry.path,
          WithEncoding(HeadersSet(base_headers, "Content-Length", str(file_entry.size)))>>

get_alternatives(base_headers, files) ==
    LET Each(ordered) ==
            [i \in 1..Len(ordered) |->
                Alternative(base_headers, ordered[i][1], ordered[i][2])]
    IN  Each(files_by_size(files))

\* StaticFile.__init__
StaticFile(fsys, path, headers, encodings, stat_cache) ==
    LET Built(file_stats, hdrs) ==
            [type                  |-> "StaticFile",
             last_modified         |-> parsedate(HeadersGet(hdrs, "Last-Modified")),
             etag                  |-> HeadersGet(hdrs, "ETag"),
             not_modified_response |-> get_not_modified_response(hdrs),
             alternatives          |-> get_alternatives(hdrs, file_stats)]
        Stats(stats) ==
            IF IsError(stats) THEN stats
            ELSE Built(stats.items, get_headers(headers, stats.items))
    IN  Stats(get_file_stats(fsys, path, encodings, stat_cache))

\* ------------------------------------------------------------------------
\* responders.py: answering a request.  request_headers is the WSGI environ:
\* a function from the keys that are present to their string values.
\* ------------------------------------------------------------------------

\* request_headers.get(key, default)
DictGet(d, key, default) == IF key \in DOMAIN d THEN d[key] ELSE default

WordChars == Digits \o UpperCase \o LowerCase \o "_"

\* re.compile(rf"\b{encoding}\b").search(text), and re.compile("") for no
\* encoding, which matches every text
encoding_re_search(encoding, text) ==
    IF encoding = "" THEN TRUE
    ELSE \E i \in 1..(Len(text) - Len(encoding) + 1) :
            /\ SubSeq(text, i, i + Len(encoding) - 1) = encoding
            /\ i = 1 \/ ~Contains(WordChars, CharAt(text, i - 1))
            /\ \/ i + Len(encoding) - 1 = Len(text)
               \/ ~Contains(WordChars, CharAt(text, i + Len(encoding)))

\* An is_not_modified that goes on to If-Modified-Since when If-None-Match
\* does not match
is_not_modified_falling_back(self, request_headers) ==
    IF /\ "HTTP_IF_NONE_MATCH" \in DOMAIN request_headers
       /\ Some(request_headers["HTTP_IF_NONE_MATCH"]) = self.etag
    THEN TRUE
    ELSE IF self.last_modified = None THEN FALSE
    ELSE IF "HTTP_IF_MODIFIED_SINCE" \notin DOMAIN request_headers THEN FALSE
    ELSE LET Since(last_requested_ts) ==
                 IF last_requested_ts # None
                 THEN TimeTupleGE(last_requested_ts[1], self.last_modified[1])
                 ELSE FALSE
         IN  Since(parsedate(Some(request_headers["HTTP_IF_MODIFIED_SINCE"])))

\* An is_not_modified with the comparison the other way round:
\* last_requested_ts <= self.last_modified
is_not_modified_when_earlier(self, request_headers) ==
    IF "HTTP_IF_NONE_MATCH" \in DOMAIN request_headers
    THEN Some(request_headers["HTTP_IF_NONE_MATCH"]) = self.etag
    ELSE IF self.last_modified = None THEN FALSE
    ELSE IF "HTTP_IF_MODIFIED_SINCE" \notin DOMAIN request_headers THEN FALSE
    ELSE LET Since(last_requested_ts) ==
                 IF last_requested_ts # None
                 THEN TimeTupleGE(self.last_modified[1], last_requested_ts[1])
                 ELSE FALSE
         IN  Since(parsedate(Some(request_headers["HTTP_IF_MODIFIED_SINCE"])))

is_not_modified(self, request_headers) ==
    IF "HTTP_IF_NONE_MATCH" \in DOMAIN request_headers
    THEN Some(request_headers["HTTP_IF_NONE_MATCH"]) = self.etag
    ELSE IF self.last_modified = None THEN FALSE
    ELSE IF "HTTP_IF_MODIFIED_SINCE" \notin DOMAIN request_headers THEN FALSE
    ELSE LET Since(last_requested_ts) ==
                 IF last_requested_ts # None
                 THEN TimeTupleGE(last_requested_ts[1], self.last_modified[1])
                 ELSE FALSE
         IN  Since(parsedate(Some(request_headers["HTTP_IF_MODIFIED_SINCE"])))

\* The first alternative whose pattern is found in Accept-Encoding, as
\* Some(<<path, headers>>); None stands for the MissingFileError raised
\* when there is none.
get_path_and_headers(self, request_headers) ==
    LET given           == DictGet(request_headers, "HTTP_ACCEPT_ENCODING", "")
        accept_encoding == IF given = "*" THEN "" ELSE given
        First(matching) ==
            IF matching = {} THEN None
            ELSE LET first == CHOOSE i \in matching : \A j \in matching : i <= j
                 IN  Some(<<self.alternatives[first][2], self.alternatives[first][3]>>)
    IN  First({i \in 1..Len(self.alternatives) :
                  encoding_re_search(self.alternatives[i][1], accept_encoding)})

\* A parse that takes the range of any unit
parse_byte_range_of_any_unit(range_header) ==
    LET Closed(start, end) ==
            IF start = None \/ end = None THEN None ELSE Some(<<start[1], end>>)
        Open(start) == IF start = None THEN None ELSE Some(<<start[1], None>>)
        Suffix(end) == IF end = None THEN None ELSE Some(<<0 - end[1], None>>)
        Parts(start_str, sep, end_str) ==
            IF sep = "" THEN None
            ELSE IF start_str = "" THEN Suffix(int(end_str))
            ELSE IF end_str = "" THEN Open(int(start_str))
            ELSE Closed(int(start_str), int(end_str))
        Range(r) == Parts(r[1], r[2], r[3])
        Units(u) == Range(partition(strip(u[3], Whitespace), "-"))
    IN  Units(partition(strip(range_header, Whitespace), "="))

\* parse_byte_range: Some(<<start, end>>) with end None or Some(n); None
\* stands for the ValueError
parse_byte_range(range_header) ==
    LET Closed(start, end) ==
            IF start = None \/ end = None THEN None ELSE Some(<<start[1], end>>)
        Open(start) == IF start = None THEN None ELSE Some(<<start[1], None>>)
        Suffix(end) == IF end = None THEN None ELSE Some(<<0 - end[1], None>>)
        Parts(start_str, sep, end_str) ==
            IF sep = "" THEN None
            ELSE IF start_str = "" THEN Suffix(int(end_str))
            ELSE IF end_str = "" THEN Open(int(start_str))
            ELSE Closed(int(start_str), int(end_str))
        Range(r) == Parts(r[1], r[2], r[3])
        Units(u) ==
            IF u[1] # "bytes" THEN None
            ELSE Range(partition(strip(u[3], Whitespace), "-"))
    IN  Units(partition(strip(range_header, Whitespace), "="))

\* get_byte_range: Some(<<start, end>>), or None for the ValueError
get_byte_range(range_header, size) ==
    LET Clamp(start, end) ==
            Some(<< IF start < 0 THEN Max(start + size, 0) ELSE start,
                    IF end = None THEN size - 1 ELSE Min(end[1], size - 1) >>)
        Parsed(parsed) == IF parsed = None THEN None ELSE Clamp(parsed[1][1], parsed[1][2])
    IN  Parsed(parse_byte_range(range_header))

\* The Content-Length of base_headers (the last one listed), or None
ContentLengthOf(base_headers) ==
    LET Last(hits) ==
            IF hits = {} THEN None
            ELSE int(base_headers[CHOOSE i \in hits : \A j \in hits : j <= i][2])
    IN  Last({i \in 1..Len(base_headers) : base_headers[i][1] = "Content-Length"})

RECURSIVE WithoutContentLength(_)
WithoutContentLength(base_headers) ==
    IF base_headers = <<>> THEN <<>>
    ELSE (IF Head(base_headers)[1] = "Content-Length" THEN <<>> ELSE <<Head(base_headers)>>)
         \o WithoutContentLength(Tail(base_headers))

\* The result of a response method: the Response (or the error raised), the
\* path handed to open() during the call (None when nothing was opened) and
\* whether that handle was closed again before the call returned.
Outcome(response, opened, closed) ==
    [response |-> response, opened |-> opened, closed |-> closed]

\* A 416 response that names the last byte instead of the size
range_not_satisfiable_naming_last_byte(file_handle, size) ==
    Outcome(Response(416, << <<"Content-Range", "bytes */" \o str(size - 1)>> >>, NoFile),
            IF file_handle.kind = "none" THEN None ELSE Some(file_handle.path),
            file_handle.kind # "none")

\* A 416 response that leaves the file it was given open
get_range_not_satisfiable_response_leaving_open(file_handle, size) ==
    Outcome(Response(416, << <<"Content-Range", "bytes */" \o str(size)>> >>, NoFile),
            IF file_handle.kind = "none" THEN None ELSE Some(file_handle.path),
            FALSE)

get_range_not_satisfiable_response(file_handle, size) ==
    Outcome(Response(416, << <<"Content-Range", "bytes */" \o str(size)>> >>, NoFile),
            IF file_handle.kind = "none" THEN None ELSE Some(file_handle.path),
            file_handle.kind # "none")

\* Async file handles are not opened yet, so there is nothing to close
aget_range_not_satisfiable_response(file_handle, size) ==
    Outcome(Response(416, << <<"Content-Range", "bytes */" \o str(size)>> >>, NoFile),
            None, FALSE)

\* A 206 response built for an open file only: a request without a file
\* handle gets the full response
PartialContentOfOpenFile(headers, start, end, size, file_handle) ==
    IF file_handle.kind = "none"
    THEN Response(200, headers \o << <<"Content-Length", str(size)>> >>, NoFile)
    ELSE Response(206,
             headers \o << <<"Content-Range",
                             "bytes " \o str(start) \o "-" \o str(end) \o "/" \o str(size)>>,
                           <<"Content-Length", str(end - start + 1)>> >>,
             SlicedFile(file_handle, start, end))

\* The 206 response of a satisfiable range
PartialContent(headers, start, end, size, file_handle) ==
    Response(206,
        headers \o << <<"Content-Range",
                        "bytes " \o str(start) \o "-" \o str(end) \o "/" \o str(size)>>,
                      <<"Content-Length", str(end - start + 1)>> >>,
        IF file_handle.kind = "none" THEN NoFile ELSE SlicedFile(file_handle, start, end))

\* Some(Outcome), or None for the ValueError that makes the caller ignore Range
get_range_response(range_header, base_headers, file_handle) ==
    LET Ranged(size, range) ==
            IF range = None THEN None
            ELSE IF range[1][1] >= range[1][2]
            THEN Some(get_range_not_satisfiable_response(file_handle, size))
            ELSE Some(Outcome(
                     PartialContent(WithoutContentLength(base_headers),
                                    range[1][1], range[1][2], size, file_handle),
                     IF file_handle.kind = "none" THEN None ELSE Some(file_handle.path),
                     FALSE))
        Sized(size) ==
            IF size = None THEN None
            ELSE Ranged(size[1], get_byte_range(range_header, size[1]))
    IN  Sized(ContentLengthOf(base_headers))

\* A range response whose file is the whole file, not the slice
aget_range_response_unsliced(range_header, base_headers, file_handle) ==
    LET Whole(ranged) ==
            IF ranged = None THEN None
            ELSE IF ranged[1].response.status # 206
            THEN Some(aget_range_not_satisfiable_response(file_handle,
                                                          ContentLengthOf(base_headers)[1]))
            ELSE Some(Outcome([ranged[1].response EXCEPT !.file = file_handle], None, FALSE))
    IN  Whole(get_range_response(range_header, base_headers, file_handle))

aget_range_response(range_header, base_headers, file_handle) ==
    LET Ranged(size, range) ==
            IF range = None THEN None
            ELSE IF range[1][1] >= range[1][2]
            THEN Some(aget_range_not_satisfiable_response(file_handle, size))
            ELSE Some(Outcome(
                     PartialContent(WithoutContentLength(base_headers),
                                    range[1][1], range[1][2], size, file_handle),
                     None, FALSE))
        Sized(size) ==
            IF size = None THEN None
            ELSE Ranged(size[1], get_byte_range(range_header, size[1]))
    IN  Sized(ContentLengthOf(base_headers))

\* open(path, "rb"): the handle, or the OSError of a path that is no file
open(fsys, path) ==
    IF os_path_isfile(fsys, path) THEN OpenFile(path) ELSE Raise("OSError")

\* StaticFile.get_response
StaticFile_get_response(fsys, self, method, request_headers) ==
    LET range_header == DictGet(request_headers, "HTTP_RANGE", "")
        Full(path, headers, file_handle) ==
            Outcome(Response(200, headers, file_handle),
                    IF file_handle.kind = "none" THEN None ELSE Some(path), FALSE)
        Ranged(path, headers, file_handle, ranged) ==
            IF ranged # None THEN ranged[1] ELSE Full(path, headers, file_handle)
        Opened(path, headers, file_handle) ==
            IF "type" \in DOMAIN file_handle THEN Outcome(file_handle, None, FALSE)
            ELSE IF range_header # ""
            THEN Ranged(path, headers, file_handle,
                        get_range_response(range_header, headers, file_handle))
            ELSE Full(path, headers, file_handle)
        Chosen(chosen) ==
            IF chosen = None THEN Outcome(Raise("MissingFileError"), None, FALSE)
            ELSE Opened(chosen[1][1], chosen[1][2],
                        IF method # "HEAD" THEN open(fsys, chosen[1][1]) ELSE NoFile)
    IN  IF method \notin {"GET", "HEAD"} THEN Outcome(NOT_ALLOWED_RESPONSE, None, FALSE)
        ELSE IF is_not_modified(self, request_headers)
        THEN Outcome(self.not_modified_response, None, FALSE)
        ELSE Chosen(get_path_and_headers(self, request_headers))

\* StaticFile.aget_response: the AsyncFile handle is created, not opened
StaticFile_aget_response(self, method, request_headers) ==
    LET range_header == DictGet(request_headers, "HTTP_RANGE", "")
        Full(headers, file_handle) ==
            Outcome(Response(200, headers, file_handle), None, FALSE)
        Ranged(headers, file_handle, ranged) ==
            IF ranged # None THEN ranged[1] ELSE Full(headers, file_handle)
        Created(headers, file_handle) ==
            IF range_header # ""
            THEN Ranged(headers, file_handle,
                        aget_range_response(range_header, headers, file_handle))
            ELSE Full(headers, file_handle)
        Chosen(chosen) ==
            IF chosen = None THEN Outcome(Raise("MissingFileError"), None, FALSE)
            ELSE Created(chosen[1][2],
                         IF method # "HEAD" THEN OpenFile(chosen[1][1]) ELSE NoFile)
    IN  IF method \notin {"GET", "HEAD"} THEN Outcome(NOT_ALLOWED_RESPONSE, None, FALSE)
        ELSE IF is_not_modified(self, request_headers)
        THEN Outcome(self.not_modified_response, None, FALSE)
        ELSE Chosen(get_path_and_headers(self, request_headers))

\* ------------------------------------------------------------------------
\* responders.py: Redirect
\* ------------------------------------------------------------------------

\* The printable ASCII characters of codes 32..95 and 97..126
AsciiLow == " !\"#$%&'()*+,-./0123456789:;<=>?@ABCDEFGHIJKLMNOPQRSTUVWXYZ[\\]^_"

AsciiHigh == "abcdefghijklmnopqrstuvwxyz{|}~"

ord(c) == IF Contains(AsciiLow, c) THEN Find(AsciiLow, c) + 31 ELSE Find(AsciiHigh, c) + 96

\* The characters urllib.parse.quote leaves alone (safe="/")
QuoteSafe == UpperCase \o LowerCase \o Digits \o "_.-~/"

RECURSIVE quote(_)
quote(s) ==
    IF s = "" THEN ""
    ELSE (IF Contains(QuoteSafe, Head(s)) THEN Head(s) ELSE "%" \o upper(hex(ord(Head(s)))))
         \o quote(Tail(s))

\* Redirect.__init__(location, headers): headers is the list of the dict's items
Redirect(location, headers) ==
    [type     |-> "Redirect",
     response |-> Response(302, Append(headers, <<"Location", quote(location)>>), NoFile)]

RECURSIVE WithLocation(_, _)
WithLocation(headers, value) ==
    IF headers = <<>> THEN <<>>
    ELSE IF Head(headers)[1] = "Location" THEN << <<"Location", value>> >> \o Tail(headers)
    ELSE <<Head(headers)>> \o WithLocation(Tail(headers), value)

LocationOf(headers) ==
    headers[CHOOSE i \in 1..Len(headers) :
                /\ headers[i][1] = "Location"
                /\ \A j \in 1..(i - 1) : headers[j][1] # "Location"][2]

\* Redirect.get_response and aget_response (the method is not looked at)
Redirect_get_response(self, method, request_headers) ==
    LET query_string == DictGet(request_headers, "QUERY_STRING", "")
    IN  IF query_string # ""
        THEN Outcome(Response(self.response.status,
                              WithLocation(self.response.headers,
                                           LocationOf(self.response.headers) \o "?" \o query_string),
                              NoFile),
                     None, FALSE)
        ELSE Outcome(self.response, None, FALSE)

\* A Redirect whose get_response puts the query string into the header list
\* of self.response itself
Redirect_after_assigning_in_place(self, method, request_headers) ==
    LET query_string == DictGet(request_headers, "QUERY_STRING", "")
    IN  IF query_string # ""
        THEN [self EXCEPT !.response.headers =
                 WithLocation(@, LocationOf(@) \o "?" \o query_string)]
        ELSE self

\* A StaticFile whose range response takes Content-Length out of the header
\* lists of self.alternatives themselves
StaticFile_after_range_in_place(self, method, request_headers) ==
    IF method \in {"GET", "HEAD"} /\ DictGet(request_headers, "HTTP_RANGE", "") # ""
    THEN [self EXCEPT !.alternatives =
             [i \in 1..Len(@) |-> <<@[i][1], @[i][2], WithoutContentLength(@[i][3])>>]]
    ELSE self

\* The Redirect after get_response: headers = list(self.response.headers) is
\* a copy, so headers[i] = ... leaves self.response as it was
Redirect_after_get_response(self, method, request_headers) == self

\* The StaticFile after get_response or aget_response: no attribute is
\* assigned, and get_range_response collects the headers in a list of its own
StaticFile_after_get_response(self, method, request_headers) == self

\* A get_response that makes the conditional check before the method check
get_response_conditional_first(fsys, responder, method, request_headers) ==
    IF responder.type = "Redirect" THEN Redirect_get_response(responder, method, request_headers)
    ELSE IF is_not_modified(responder, request_headers)
    THEN Outcome(responder.not_modified_response, None, FALSE)
    ELSE StaticFile_get_response(fsys, responder, method, request_headers)

\* A get_response that rejects POST only and answers PUT and DELETE like GET
get_response_rejecting_post_only(fsys, responder, method, request_headers) ==
    IF responder.type = "Redirect" THEN Redirect_get_response(responder, method, request_headers)
    ELSE StaticFile_get_response(fsys, responder,
                                 IF method \in {"PUT", "DELETE"} THEN "GET" ELSE method,
                                 request_headers)

\* A get_response that opens the file before it looks at the conditional
\* headers
get_response_opening_first(fsys, responder, method, request_headers) ==
    LET Chosen(chosen) ==
            IF chosen = None THEN Outcome(Raise("MissingFileError"), None, FALSE)
            ELSE Outcome(responder.not_modified_response,
                         IF method # "HEAD" THEN Some(chosen[1][1]) ELSE None, FALSE)
    IN  IF responder.type = "Redirect"
        THEN Redirect_get_response(responder, method, request_headers)
        ELSE IF method \in {"GET", "HEAD"} /\ is_not_modified(responder, request_headers)
        THEN Chosen(get_path_and_headers(responder, request_headers))
        ELSE StaticFile_get_response(fsys, responder, method, request_headers)

\* responder.get_response(method, request_headers)
get_response(fsys, responder, method, request_headers) ==
    IF responder.type = "Redirect" THEN Redirect_get_response(responder, method, request_headers)
    ELSE StaticFile_get_response(fsys, responder, method, request_headers)

\* await responder.aget_response(method, request_headers)
aget_response(responder, method, request_headers) ==
    IF responder.type = "Redirect" THEN Redirect_get_response(responder, method, request_headers)
    ELSE StaticFile_aget_response(responder, method, request_headers)

\* The responder object after get_response or aget_response returned
responder_after(responder, method, request_headers) ==
    IF responder.type = "Redirect"
    THEN Redirect_after_get_response(responder, method, request_headers)
    ELSE StaticFile_after_get_response(responder, method, request_headers)

\* ------------------------------------------------------------------------
\* base.py: ServeStaticBase.  The attributes of the instance are variables.
\* ------------------------------------------------------------------------

VARIABLES
    server,                    \* the class of the instance: "ServeStatic" or "ServeStaticASGI"
    application,               \* self.application after initialize()
    autorefresh,               \* self.autorefresh
    max_age,                   \* self.max_age: None or Some(seconds)
    allow_all_origins,         \* self.allow_all_origins
    index_file,                \* self.index_file: None or Some(name)
    user_immutable_file_test,  \* self.user_immutable_file_test: None or Some(pattern)
    files,                     \* self.files: URL -> StaticFile or Redirect
    directories,               \* self.directories: sequence of <<root, prefix>>
    crashed,                   \* an exception escaped add_files: the instance is unusable
    added,                     \* the (root, prefix) of the add_files calls so far, in order
    last,                      \* the call handled last and what it did
    run                        \* the file server call under way, one await at a time

FOREVER == 10 * 365 * 24 * 60 * 60

charset == "utf-8"

DictSet(d, key, value) ==
    [k \in DOMAIN d \cup {key} |-> IF k = key THEN value ELSE d[k]]

EmptyDict == [k \in {} |-> None]

\* posixpath.normpath
RECURSIVE NormComps(_, _, _)
NormComps(comps, new_comps, initial_slashes) ==
    IF comps = <<>> THEN new_comps
    ELSE LET comp == Head(comps)
         IN  IF comp \in {"", "."} THEN NormComps(Tail(comps), new_comps, initial_slashes)
             ELSE IF \/ comp # ".."
                     \/ (initial_slashes = 0 /\ new_comps = <<>>)
                     \/ (new_comps # <<>> /\ new_comps[Len(new_comps)] = "..")
             THEN NormComps(Tail(comps), Append(new_comps, comp), initial_slashes)
             ELSE IF new_comps # <<>>
             THEN NormComps(Tail(comps), SubSeq(new_comps, 1, Len(new_comps) - 1), initial_slashes)
             ELSE NormComps(Tail(comps), new_comps, initial_slashes)

normpath(path) ==
    IF path = "" THEN "."
    ELSE LET initial_slashes ==
                 IF ~startswith(path, "/") THEN 0
                 ELSE IF startswith(path, "//") /\ ~startswith(path, "///") THEN 2
                 ELSE 1
             OrDot(result) == IF result = "" THEN "." ELSE result
         IN  OrDot((IF initial_slashes = 2 THEN "//"
                    ELSE IF initial_slashes = 1 THEN "/" ELSE "")
                   \o join("/", NormComps(split(path, "/"), <<>>, initial_slashes)))

url_is_canonical(url) ==
    IF Contains(url, "\\") THEN FALSE
    ELSE (IF endswith(url, "/") /\ url # "/" THEN normpath(url) \o "/" ELSE normpath(url)) = url

\* utils.ensure_leading_trailing_slash; a prefix of None is given as ""
ensure_leading_trailing_slash(path) ==
    LET Slashed(stripped) == IF stripped # "" THEN "/" \o stripped \o "/" ELSE "/"
    IN  Slashed(strip(path, "/"))

\* A test that takes every .gz and .br file for a compressed variant
is_compressed_variant_by_suffix(fsys, path, stat_cache) ==
    LastChars(path, 3) \in {".gz", ".br"}

is_compressed_variant(fsys, path, stat_cache) ==
    IF LastChars(path, 3) \in {".gz", ".br"}
    THEN LET uncompressed_path == DropLast(path, 3)
         IN  IF stat_cache = None THEN os_path_isfile(fsys, uncompressed_path)
             ELSE uncompressed_path \in DOMAIN stat_cache[1]
    ELSE FALSE

\* immutable_file_test: the configured pattern is searched in the URL
immutable_file_test(path, url) ==
    IF user_immutable_file_test # None THEN Contains(url, user_immutable_file_test[1])
    ELSE FALSE

\* Cache headers that look at max_age before the immutability test
add_cache_headers_max_age_first(headers, path, url) ==
    IF max_age # None
    THEN HeadersSet(headers, "Cache-Control", "max-age=" \o str(max_age[1]) \o ", public")
    ELSE IF immutable_file_test(path, url)
    THEN HeadersSet(headers, "Cache-Control", "max-age=" \o str(FOREVER) \o ", public, immutable")
    ELSE headers

add_cache_headers(headers, path, url) ==
    IF immutable_file_test(path, url)
    THEN HeadersSet(headers, "Cache-Control", "max-age=" \o str(FOREVER) \o ", public, immutable")
    ELSE IF max_age # None
    THEN HeadersSet(headers, "Cache-Control", "max-age=" \o str(max_age[1]) \o ", public")
    ELSE headers

\* MediaTypes.get_type: the type of the path's extension, else octet-stream
media_types_get_type(path) ==
    IF endswith(path, ".js") THEN "text/javascript"
    ELSE IF endswith(path, ".html") THEN "text/html"
    ELSE IF endswith(path, ".txt") THEN "text/plain"
    ELSE "application/octet-stream"

\* headers.add_header("Content-Type", media_type, **params)
add_mime_headers(headers, path, url) ==
    LET Typed(media_type) ==
            Append(headers,
                   <<"Content-Type",
                     IF startswith(media_type, "text/")
                     THEN media_type \o "; charset=\"" \o charset \o "\""
                     ELSE media_type>>)
    IN  Typed(media_types_get_type(path))

\* get_static_file: a StaticFile, or the error raised
get_static_file(fsys, path, url, stat_cache) ==
    IF stat_cache = None /\ ~os_path_exists(fsys, path) THEN Raise("MissingFileError")
    ELSE LET WithOrigin(headers) ==
                 IF allow_all_origins
                 THEN HeadersSet(headers, "Access-Control-Allow-Origin", "*")
                 ELSE headers
         IN  StaticFile(fsys, path,
                        WithOrigin(add_cache_headers(add_mime_headers(<<>>, path, url),
                                                     path, url)),
                        << <<"gzip", path \o ".gz">>, <<"br", path \o ".br">> >>, stat_cache)

\* redirect(from_url, to_url): a Redirect, or the ValueError raised
redirect(from_url, to_url) ==
    LET headers == IF max_age # None
                   THEN << <<"Cache-Control", "max-age=" \o str(max_age[1]) \o ", public">> >>
                   ELSE <<>>
        LastOf(parts) == parts[Len(parts)]
        To(relative_url) == Redirect(relative_url, headers)
    IN  IF to_url = from_url \o "/" THEN To(LastOf(split(from_url, "/")) \o "/")
        ELSE IF from_url = to_url \o index_file[1] THEN To("./")
        ELSE Raise("ValueError")

\* insert_directory: the new pair goes first unless it is listed already
insert_directory(dirs, root, prefix) ==
    IF \E i \in 1..Len(dirs) : dirs[i] = <<root, prefix>> THEN dirs
    ELSE << <<root, prefix>> >> \o dirs

\* An add_file_to_dictionary that goes on with the URL of the index file
\* itself: the StaticFile is entered under the directory URL and under the
\* literal URL
add_file_to_dictionary_keeping_url(fsys, dict, url, path, stat_cache) ==
    IF is_compressed_variant(fsys, path, stat_cache) THEN [type |-> "files", items |-> dict]
    ELSE IF index_file # None /\ endswith(url, "/" \o index_file[1])
    THEN LET index_url      == DropLast(url, Len(index_file[1]))
             index_no_slash == rstrip(index_url, "/")
             Index(r2, static_file) ==
                 IF IsError(r2) THEN r2
                 ELSE IF IsError(static_file) THEN static_file
                 ELSE [type  |-> "files",
                       items |-> DictSet(DictSet(DictSet(dict, index_url, static_file),
                                                 index_no_slash, r2),
                                         url, static_file)]
         IN  Index(redirect(index_no_slash, index_url),
                   get_static_file(fsys, path, index_url, stat_cache))
    ELSE LET Plain(static_file) ==
                 IF IsError(static_file) THEN static_file
                 ELSE [type |-> "files", items |-> DictSet(dict, url, static_file)]
         IN  Plain(get_static_file(fsys, path, url, stat_cache))

\* add_file_to_dictionary: [type |-> "files", items |-> the new dict], or the
\* error raised by get_static_file or redirect
add_file_to_dictionary(fsys, dict, url, path, stat_cache) ==
    IF is_compressed_variant(fsys, path, stat_cache) THEN [type |-> "files", items |-> dict]
    ELSE IF index_file # None /\ endswith(url, "/" \o index_file[1])
    THEN LET index_url      == DropLast(url, Len(index_file[1]))
             index_no_slash == rstrip(index_url, "/")
             Index(r1, r2, static_file) ==
                 IF IsError(r1) THEN r1
                 ELSE IF IsError(r2) THEN r2
                 ELSE IF IsError(static_file) THEN static_file
                 ELSE [type  |-> "files",
                       items |-> DictSet(DictSet(DictSet(dict, url, r1), index_no_slash, r2),
                                         index_url, static_file)]
         IN  Index(redirect(url, index_url), redirect(index_no_slash, index_url),
                   get_static_file(fsys, path, index_url, stat_cache))
    ELSE LET Plain(static_file) ==
                 IF IsError(static_file) THEN static_file
                 ELSE [type |-> "files", items |-> DictSet(dict, url, static_file)]
         IN  Plain(get_static_file(fsys, path, url, stat_cache))

\* The loop of update_files_dictionary over the paths still to be added
RECURSIVE AddScanned(_, _, _, _, _, _)
AddScanned(fsys, dict, root, prefix, todo, stat_cache) ==
    IF todo = {} THEN [type |-> "files", items |-> dict]
    ELSE LET path          == CHOOSE q \in todo : TRUE
             relative_path == DropFirst(path, Len(root))
             relative_url  == replace(relative_path, "\\", "/")
             url           == prefix \o relative_url
             Then(updated) ==
                 IF IsError(updated) THEN updated
                 ELSE AddScanned(fsys, updated.items, root, prefix, todo \ {path}, stat_cache)
         IN  Then(add_file_to_dictionary(fsys, dict, url, path, stat_cache))

update_files_dictionary(fsys, dict, root, prefix) ==
    LET Scanned(stat_cache) ==
            AddScanned(fsys, dict, root, prefix, DOMAIN stat_cache, Some(stat_cache))
    IN  Scanned(scantree(fsys, root))

\* The root and prefix add_files works with
AbsRoot(root) == rstrip(normpath(root), "/") \o "/"

\* candidate_paths_for_url: the paths yielded, in the order of `directories`
RECURSIVE candidate_paths_for_url(_, _)
candidate_paths_for_url(dirs, url) ==
    IF dirs = <<>> THEN <<>>
    ELSE LET root   == Head(dirs)[1]
             prefix == Head(dirs)[2]
             Yield(path) ==
                 IF startswith(url, prefix) /\ os_path_commonprefix(root, path) = root
                 THEN <<path>> ELSE <<>>
         IN  Yield(os_path_join(root, DropFirst(url, Len(prefix))))
             \o candidate_paths_for_url(Tail(dirs), url)

\* A lookup that serves a file asked for by the name of the index file
find_file_at_path_serving_index(fsys, path, url) ==
    IF is_compressed_variant(fsys, path, None) THEN Raise("MissingFileError")
    ELSE IF index_file # None /\ endswith(url, "/")
    THEN get_static_file(fsys, os_path_join(path, index_file[1]), url, None)
    ELSE get_static_file(fsys, path, url, None)

\* find_file_at_path: a StaticFile, a Redirect, or the error raised
find_file_at_path(fsys, path, url) ==
    IF is_compressed_variant(fsys, path, None) THEN Raise("MissingFileError")
    ELSE IF index_file # None
    THEN IF endswith(url, "/")
         THEN get_static_file(fsys, os_path_join(path, index_file[1]), url, None)
         ELSE IF endswith(url, "/" \o index_file[1])
         THEN (IF os_path_isfile(fsys, path)
               THEN redirect(url, DropLast(url, Len(index_file[1])))
               ELSE Raise("MissingFileError"))
         ELSE LET Tried(static_file) ==
                      IF static_file.type # "IsDirectoryError" THEN static_file
                      ELSE IF os_path_isfile(fsys, os_path_join(path, index_file[1]))
                      THEN redirect(url, url \o "/")
                      ELSE Raise("MissingFileError")
              IN  Tried(get_static_file(fsys, path, url, None))
    ELSE get_static_file(fsys, path, url, None)

NoResponder == [type |-> "NoneType"]

\* The loop of find_file: a MissingFileError moves on to the next path, any
\* other result (a responder, another error) ends the loop
RECURSIVE FirstFound(_, _, _)
FirstFound(fsys, paths, url) ==
    IF paths = <<>> THEN NoResponder
    ELSE LET Suppress(found) ==
                 IF IsMissingFileError(found) THEN FirstFound(fsys, Tail(paths), url)
                 ELSE found
         IN  Suppress(find_file_at_path(fsys, Head(paths), url))

\* A find_file that looks the URL up in self.files
find_file_in_index(fsys, dirs, url) ==
    IF url \in DOMAIN files THEN files[url] ELSE NoResponder

\* find_file: a responder, NoResponder for None, or the error raised
find_file(fsys, dirs, url) ==
    IF index_file = None /\ endswith(url, "/") THEN NoResponder
    ELSE IF ~url_is_canonical(url) THEN NoResponder
    ELSE FirstFound(fsys, candidate_paths_for_url(dirs, url), url)

\* A lookup that answers only while the file of the entry exists
files_get_of_existing(dict, path) ==
    IF path \notin DOMAIN dict THEN NoResponder
    ELSE IF dict[path].type # "StaticFile" THEN dict[path]
    ELSE IF os_path_isfile(fs, dict[path].alternatives[1][2]) THEN dict[path]
    ELSE NoResponder

\* self.files.get(path)
files_get(dict, path) == IF path \in DOMAIN dict THEN dict[path] ELSE NoResponder

\* ------------------------------------------------------------------------
\* wsgi.py and asgi.py: the entry points and the file servers
\* ------------------------------------------------------------------------

\* The size of the blocks a body is read and sent in (utils.ASGI_BLOCK_SIZE,
\* which the tests lower too)
BlockSize == 4

get_block_size == BlockSize

\* decode_path_info: path_info.encode("iso-8859-1", "replace").decode("utf-8",
\* "replace").  Every character of the argument stands for one byte.  The
\* paths of the model are ASCII but for four characters written with
\* stand-ins: "{" and "}" are the characters of the bytes C3 and A9, "|" is
\* the character U+00E9 (byte E9, and C3 A9 in UTF-8) and "^" is U+FFFD.  So
\* "{}" decodes to "|", and a byte above 7F outside that sequence to "^".
RECURSIVE DecodeUtf8(_)
DecodeUtf8(s) ==
    IF s = "" THEN ""
    ELSE IF startswith(s, "{}") THEN "|" \o DecodeUtf8(DropFirst(s, 2))
    ELSE (IF Contains("{}|", Head(s)) THEN "^" ELSE Head(s)) \o DecodeUtf8(Tail(s))

\* The request paths that are decoded over and over
TabulatedPaths ==
    { "/static/app.js", "/static/app.js.gz", "/static/lone.gz", "/static/dev",
      "/static/docs", "/static/docs/", "/static/docs/index.html",
      "/static/", "/static", "/static/index.html", "/static/missing.js",
      "/static/../static/app.js", "/static//app.js", "/static\\app.js",
      "/app.js", "/my docs", "//srv/a/app.js", "/{}.js", "/|.js",
      "/static//v2/app.js", "/static/new.js", "/static/index.html/",
      "/static/index.html/index.html", "/static/docs/index.html/",
      "/static/docs/index.html/index.html" }

DecodedTable == [s \in TabulatedPaths |-> DecodeUtf8(s)]

decode_path_info(path_info) ==
    IF path_info \in TabulatedPaths THEN DecodedTable[path_info] ELSE DecodeUtf8(path_info)

\* f"{response.status} {response.status.phrase}"
status_line(status) ==
    str(status) \o " " \o
    (CASE status = 200 -> "OK"
       [] status = 206 -> "Partial Content"
       [] status = 302 -> "Found"
       [] status = 304 -> "Not Modified"
       [] status = 405 -> "Method Not Allowed"
       [] status = 416 -> "Requested Range Not Satisfiable"
       [] OTHER        -> "")

\* The bytes a file object yields when it is read to its end
ReadAll(fsys, file) ==
    LET Read(content) ==
            IF file.kind = "sliced"
            THEN SubSeq(content, file.start + 1, Min(file.end + 1, Len(content)))
            ELSE content
    IN  Read(fsys[file.path].content)

\* A body loop that stops at the first block shorter than `size` without
\* passing it on
RECURSIVE BlocksFullOnly(_, _)
BlocksFullOnly(data, size) ==
    IF Len(data) < size THEN <<>>
    ELSE <<SubSeq(data, 1, size)>> \o BlocksFullOnly(DropFirst(data, size), size)

\* The blocks of at most `size` bytes that repeated read(size) calls return
RECURSIVE Blocks(_, _)
Blocks(data, size) ==
    IF data = "" THEN <<>>
    ELSE <<SubSeq(data, 1, Min(size, Len(data)))>> \o Blocks(DropFirst(data, size), size)

\* What one call of an entry point did.
\*   request    the scope type, path and method of the request and the
\*              request_headers the responder is given
\*   resolved   the responder the path resolved to, NoResponder, or an error
\*   served     the file server was called with the responder
\*   outcome    the result of the responder's response method
\*   sent       what ServeStatic itself passed to start_response / send
\*   body       the body bytes ServeStatic itself produced
\*   app_calls  how often self.application was called
\*   app_sent   what the built-in 404 application sent
\*   raised     the exception that left the call, "" when none did
NoOutcome == Outcome(NoResponder, None, FALSE)

Request(scope_type, path, method, request_headers) ==
    [scope_type |-> scope_type, path |-> path, method |-> method,
     request_headers |-> request_headers]

\* The request an environ describes
EnvironRequest(environ) ==
    Request("http", DictGet(environ, "PATH_INFO", ""), environ["REQUEST_METHOD"], environ)

Call(op, request, resolved, served, outcome, sent, body, app_calls, app_sent, raised) ==
    [op |-> op, request |-> request, resolved |-> resolved, served |-> served,
     outcome |-> outcome, sent |-> sent, body |-> body, app_calls |-> app_calls,
     app_sent |-> app_sent, raised |-> raised]

NoCall == Call("none", Request("", "", "", EmptyDict), NoResponder, FALSE, NoOutcome, <<>>, "", 0, <<>>, "")

\* FileServerWSGI.__call__ followed by the server draining the iterable
FileServerWSGI(fsys, static_file, environ, resolved) ==
    LET Started(response) ==
            << [type    |-> "start_response",
                status  |-> status_line(response.status),
                headers |-> response.headers] >>
        Served(outcome) ==
            IF IsError(outcome.response)
            THEN Call("wsgi", EnvironRequest(environ), resolved, TRUE, outcome, <<>>, "", 0,
                      <<>>, outcome.response.type)
            ELSE Call("wsgi", EnvironRequest(environ), resolved, TRUE, outcome,
                      Started(outcome.response),
                      IF outcome.response.file.kind # "none"
                      THEN ReadAll(fsys, outcome.response.file) ELSE "",
                      0, <<>>, "")
    IN  Served(get_response(fsys, static_file, environ["REQUEST_METHOD"], environ))

\* NotFoundWSGI.__call__
NotFoundWSGI ==
    << [type    |-> "start_response",
        status  |-> "404 Not Found",
        headers |-> << <<"Content-Type", "text/plain; charset=utf-8">> >>],
       [type |-> "body", body |-> "Not Found"] >>

\* ServeStatic.__call__
ServeStatic_call(fsys, environ) ==
    LET path == decode_path_info(DictGet(environ, "PATH_INFO", ""))
        Resolved(static_file) ==
            IF IsError(static_file)
            THEN Call("wsgi", EnvironRequest(environ), static_file, FALSE, NoOutcome, <<>>, "",
                      0, <<>>, static_file.type)
            ELSE IF static_file.type # "NoneType"
            THEN FileServerWSGI(fsys, static_file, environ, static_file)
            ELSE Call("wsgi", EnvironRequest(environ), static_file, FALSE, NoOutcome, <<>>, "",
                      1, IF application = "NotFoundWSGI" THEN NotFoundWSGI ELSE <<>>, "")
    IN  Resolved(IF autorefresh THEN find_file(fsys, directories, path)
                 ELSE files_get(files, path))

\* The header keys of the environ, in the order ASGI lists them
HeaderKeys == <<"HTTP_ACCEPT_ENCODING", "HTTP_IF_MODIFIED_SINCE", "HTTP_IF_NONE_MATCH",
                "HTTP_RANGE">>

\* "HTTP_" + key.upper().replace("-", "_")
wsgi_key(name) == "HTTP_" \o replace(upper(name), "-", "_")

\* key.lower().replace("_", "-")
asgi_key(name) == replace(lower(name), "_", "-")

RECURSIVE wsgi_headers_of(_)
wsgi_headers_of(headers) ==
    IF headers = <<>> THEN EmptyDict
    ELSE DictSet(wsgi_headers_of(SubSeq(headers, 1, Len(headers) - 1)),
                 wsgi_key(headers[Len(headers)][1]), headers[Len(headers)][2])

\* The messages of the body loop: one per block, then the empty last one
body_messages(data, block_size) ==
    LET Sent(blocks) ==
            [i \in 1..(Len(blocks) + 1) |->
                IF i <= Len(blocks)
                THEN [type |-> "http.response.body", body |-> blocks[i], more_body |-> TRUE]
                ELSE [type |-> "http.response.body", body |-> "", more_body |-> FALSE]]
    IN  Sent(Blocks(data, block_size))

RECURSIVE BodyOf(_)
BodyOf(messages) ==
    IF messages = <<>> THEN ""
    ELSE (IF Head(messages).type = "http.response.body" THEN Head(messages).body ELSE "")
         \o BodyOf(Tail(messages))

\* FileServerASGI.__call__
FileServerASGI(fsys, static_file, scope, resolved) ==
    LET Start(response) ==
            [type    |-> "http.response.start",
             status  |-> response.status,
             headers |-> [i \in 1..Len(response.headers) |->
                             <<asgi_key(response.headers[i][1]), response.headers[i][2]>>]]
        Streamed(request, outcome, start, frames) ==
            Call("asgi", request, resolved, TRUE,
                 Outcome(outcome.response, Some(outcome.response.file.path), TRUE),
                 <<start>> \o frames, BodyOf(frames), 0, <<>>, "")
        Entered(request, outcome, start, opened) ==
            IF "type" \in DOMAIN opened
            THEN Call("asgi", request, resolved, TRUE, outcome, <<start>>, "", 0, <<>>,
                      opened.type)
            ELSE Streamed(request, outcome, start,
                          body_messages(ReadAll(fsys, outcome.response.file), get_block_size))
        Started(request, outcome, start) ==
            IF outcome.response.file.kind = "none"
            THEN Call("asgi", request, resolved, TRUE, outcome,
                      <<start, [type |-> "http.response.body", body |-> ""]>>, "", 0, <<>>, "")
            ELSE Entered(request, outcome, start, open(fsys, outcome.response.file.path))
        Answered(request, outcome) ==
            IF IsError(outcome.response)
            THEN Call("asgi", request, resolved, TRUE, outcome, <<>>, "", 0, <<>>,
                      outcome.response.type)
            ELSE Started(request, outcome, Start(outcome.response))
        Converted(wsgi_headers) ==
            Answered(Request(scope.type, scope.path, scope.method, wsgi_headers),
                     aget_response(static_file, scope.method, wsgi_headers))
    IN  Converted(DictSet(wsgi_headers_of(scope.headers), "QUERY_STRING", scope.query_string))

\* NotFoundASGI.__call__: the messages sent, or the RuntimeError
NotFoundASGI ==
    << [type    |-> "http.response.start",
        status  |-> 404,
        headers |-> << <<"content-type", "text/plain">> >>],
       [type |-> "http.response.body", body |-> "Not Found"] >>

\* ServeStaticASGI.__call__
ServeStaticASGI_call(fsys, scope) ==
    LET path    == decode_path_info(scope.path)
        request == Request(scope.type, scope.path, scope.method, EmptyDict)
        Resolved(static_file) ==
            IF IsError(static_file)
            THEN Call("asgi", request, static_file, FALSE, NoOutcome, <<>>, "", 0, <<>>,
                      static_file.type)
            ELSE IF static_file.type # "NoneType"
            THEN FileServerASGI(fsys, static_file, scope, static_file)
            ELSE IF application = "NotFoundASGI" /\ scope.type # "http"
            THEN Call("asgi", request, static_file, FALSE, NoOutcome, <<>>, "", 1, <<>>,
                      "RuntimeError")
            ELSE Call("asgi", request, static_file, FALSE, NoOutcome, <<>>, "", 1,
                      IF application = "NotFoundASGI" THEN NotFoundASGI ELSE <<>>, "")
    IN  Resolved(IF scope.type # "http" THEN NoResponder
                 ELSE IF autorefresh THEN find_file(fsys, directories, path)
                 ELSE files_get(files, path))

\* self.files after a call of an entry point: the responder an index built
\* once handed out is the object the index holds; find_file builds a
\* responder of its own for every request
files_after(dict, refreshing, call) ==
    IF call.served /\ ~refreshing
    THEN [dict EXCEPT ![decode_path_info(call.request.path)] =
             responder_after(@, call.request.method, call.request.request_headers)]
    ELSE dict

\* ------------------------------------------------------------------------
\* The filesystems, configurations and requests the checks range over
\* ------------------------------------------------------------------------

File(content, mtime) == [kind |-> "file", content |-> content, mtime |-> mtime]

Directory == [kind |-> "dir", content |-> "", mtime |-> 121]

\* A device, socket or FIFO
Special == [kind |-> "other", content |-> "", mtime |-> 121]

\* Both roots exist and the first holds app.js
BaseTree ==
    ("/srv/a" :> Directory) @@ ("/srv/b" :> Directory) @@
    ("/srv/a/app.js" :> File("abcdef", 121))

\* The trees the index is built over
SystemTrees ==
    { BaseTree @@ ("/srv/a/app.js.gz" :> File("GZ12", 121))
               @@ ("/srv/a/docs" :> Directory)
               @@ ("/srv/a/docs/index.html" :> File("<p>docs</p>", 121))
               @@ ("/srv/b/app.js" :> File("B!", 7))
               @@ ("/srv/b/|.js" :> File("e", 121)),
      BaseTree @@ ("/srv/a/docs" :> Directory)
               @@ ("/srv/a/lone.gz" :> File("LONE", 121))
               @@ ("/srv/b/docs" :> File("plain", 0)),
      BaseTree @@ ("/srv/a/dev" :> Special),
      BaseTree @@ ("/srv/a/index.html" :> File("<p>root</p>", 1))
               @@ ("/srv/b/my docs" :> Directory)
               @@ ("/srv/b/my docs/index.html" :> File("<p>my</p>", 121)) }

\* The arguments of the constructor and of later add_files calls
ConstructorRoot == "/srv/a"

ConstructorPrefix == "static"

AddFilesArgs ==
    { <<"/srv/b", "static">>, <<"/srv/a/", "/static/">>, <<"/srv/b/", "">>,
      <<"/srv/none", "static">>, <<"/srv/b", "static//v2">> }

\* How many add_files calls follow the constructor's
MaxAddFiles == 1

Urls ==
    { "/static/app.js", "/static/app.js.gz", "/static/lone.gz", "/static/dev",
      "/static/docs", "/static/docs/", "/static/docs/index.html",
      "/static/", "/static", "/static/index.html", "/static/missing.js",
      "/static/../static/app.js", "/static//app.js", "/static\\app.js",
      "/app.js", "/my docs", "//srv/a/app.js", "/{}.js", "/|.js",
      "/static//v2/app.js" }

Methods == {"GET", "HEAD", "POST", "PUT", "DELETE"}

\* The header bags of the requests sent through the entry points
SystemBags ==
    { EmptyDict, ("QUERY_STRING" :> "v=1"), ("HTTP_ACCEPT_ENCODING" :> "gzip"),
      ("HTTP_RANGE" :> "bytes=1-2") }

\* The scope["headers"] an ASGI server gives for a header bag
RECURSIVE ScopeHeaders(_, _)
ScopeHeaders(bag, keys) ==
    IF keys = <<>> THEN <<>>
    ELSE (IF Head(keys) \in DOMAIN bag
          THEN << <<replace(lower(DropFirst(Head(keys), 5)), "_", "-"), bag[Head(keys)]>> >>
          ELSE <<>>)
         \o ScopeHeaders(bag, Tail(keys))

Scope(type, path, method, bag) ==
    [type |-> type, path |-> path, method |-> method,
     headers |-> ScopeHeaders(bag, HeaderKeys),
     query_string |-> DictGet(bag, "QUERY_STRING", "")]

Environ(path, method, bag) ==
    ("PATH_INFO" :> path) @@ ("REQUEST_METHOD" :> method) @@ bag

\* The trees a single StaticFile with its variants is built over
ResponderTrees ==
    { ("/srv/a" :> Directory) @@ ("/srv/a/app.js" :> File("abcdef", mtime)) @@ gz @@ br :
        mtime \in {0, 1, 121},
        gz \in { EmptyDict,
                 ("/srv/a/app.js.gz" :> File("GZ12", 121)),
                 ("/srv/a/app.js.gz" :> File("GZ1234567", 121)) },
        br \in { EmptyDict,
                 ("/srv/a/app.js.br" :> File("BR1", 121)),
                 ("/srv/a/app.js.br" :> File("BR12", 121)),
                 ("/srv/a/app.js.br" :> File("BR123456", 121)) } }

Optional(key, values) == {EmptyDict} \cup {key :> v : v \in values}

\* The If-None-Match values sent to a StaticFile: its own ETag, the ETag of
\* another version of the file, and the wildcard
IfNoneMatchValues(self) ==
    (IF self.type = "StaticFile" /\ self.etag # None THEN {self.etag[1]} ELSE {})
    \cup {"\"3c-5\"", "*"}

IfModifiedSinceValues == {"@0:59 GMT", "@1:0 GMT", "@1:1 GMT", "yesterday"}

AcceptEncodingValues == {"", "*", "gzip", "br", "gzip, br", "brotli", "x-gzip;q=0"}

\* The Range values sent to a StaticFile: closed, open and suffix ranges
\* inside, across and beyond the 3 to 6 bytes of the variants, a range of one
\* byte, and values that are no single bytes range
RangeValues ==
    {"bytes=0-1", "bytes=9-", "bytes=3-", "bytes=-2", "bytes=-9", "bytes=2-99",
     "bytes= 1-3 ", "bytes=3-3", "bytes=5-2",
     "lines=0-1", "bytes=1", "bytes=a-2", "bytes=0-1,3-4", "bytes =0-1"}

\* The header bags sent to a responder: every combination of the conditional
\* headers with and without one Accept-Encoding and one Range, and every
\* combination of Accept-Encoding and Range without conditional headers
ResponderBags(self) ==
    { inm @@ ims @@ ae @@ range :
        inm   \in Optional("HTTP_IF_NONE_MATCH", IfNoneMatchValues(self)),
        ims   \in Optional("HTTP_IF_MODIFIED_SINCE", IfModifiedSinceValues),
        ae    \in Optional("HTTP_ACCEPT_ENCODING", {"gzip, br"}),
        range \in Optional("HTTP_RANGE", {"bytes=0-1"}) }
    \cup
    { ae @@ range :
        ae    \in Optional("HTTP_ACCEPT_ENCODING", AcceptEncodingValues),
        range \in Optional("HTTP_RANGE", RangeValues) }

\* ------------------------------------------------------------------------
\* The state machine
\* ------------------------------------------------------------------------

vars == <<fs, server, application, autorefresh, max_age, allow_all_origins, index_file,
          user_immutable_file_test, files, directories, crashed, added, last, run>>

config == <<server, application, autorefresh, max_age, allow_all_origins, index_file,
            user_immutable_file_test>>

\* No file server call is under way
NoRun == [pc |-> "idle"]

\* add_files: the new files and directories, and the error that escaped
add_files(fsys, dict, dirs, given_root, given_prefix) ==
    LET Updated(update) ==
            IF IsError(update)
            THEN [files |-> dict, directories |-> dirs, error |-> update.type]
            ELSE [files |-> update.items, directories |-> dirs, error |-> ""]
        Normalised(root, prefix) ==
            IF autorefresh
            THEN [files |-> dict, directories |-> insert_directory(dirs, root, prefix),
                  error |-> ""]
            ELSE IF os_path_isdir(fsys, root)
            THEN Updated(update_files_dictionary(fsys, dict, root, prefix))
            ELSE [files |-> dict, directories |-> dirs, error |-> ""]
    IN  Normalised(AbsRoot(given_root), ensure_leading_trailing_slash(given_prefix))

\* ServeStaticBase.__init__ with a root, then initialize()
Constructed ==
    LET Built(built) ==
            /\ files = built.files
            /\ directories = built.directories
            /\ crashed = (built.error # "")
    IN  /\ Built(add_files(fs, EmptyDict, <<>>, ConstructorRoot, ConstructorPrefix))
        /\ added = << <<ConstructorRoot, ConstructorPrefix>> >>
        /\ last = NoCall
        /\ run = NoRun

Init ==
    /\ fs \in SystemTrees
    /\ server \in {"ServeStatic", "ServeStaticASGI"}
    /\ application \in {"user_app",
                        IF server = "ServeStatic" THEN "NotFoundWSGI" ELSE "NotFoundASGI"}
    /\ autorefresh \in BOOLEAN
    /\ max_age = Some(60)
    /\ allow_all_origins = TRUE
    /\ index_file \in {None, Some("index.html")}
    /\ user_immutable_file_test = None
    /\ Constructed

\* One add_files(root, prefix) call, while fewer than `limit` were made
\* after the constructor's
AddFilesUpTo(limit, root, prefix) ==
    /\ ~crashed
    /\ last = NoCall
    /\ Len(added) <= limit
    /\ LET Added(result) ==
               /\ files' = result.files
               /\ directories' = result.directories
               /\ crashed' = (result.error # "")
       IN  Added(add_files(fs, files, directories, root, prefix))
    /\ added' = Append(added, <<root, prefix>>)
    /\ last' = NoCall
    /\ UNCHANGED <<fs, config, run>>

AddFiles(root, prefix) == AddFilesUpTo(MaxAddFiles, root, prefix)

\* The caller takes the result of the call handled last
Return ==
    /\ last # NoCall
    /\ last' = NoCall
    /\ UNCHANGED <<fs, config, files, directories, crashed, added, run>>

\* One WSGI request: ServeStatic.__call__(environ, start_response), for
\* one of the given paths with one of the given header bags
WsgiRequestFor(urls, bags) ==
    /\ ~crashed
    /\ last = NoCall
    /\ server = "ServeStatic"
    /\ \E path \in urls, method \in Methods, bag \in bags :
          /\ method \in {"GET", "HEAD"} \/ bag = EmptyDict
          /\ last' = ServeStatic_call(fs, Environ(path, method, bag))
    /\ files' = files_after(files, autorefresh, last')
    /\ UNCHANGED <<fs, config, directories, crashed, added, run>>

WsgiRequest == WsgiRequestFor(Urls, SystemBags)

ScopeTypes == {"http", "websocket", "lifespan"}

\* One ASGI call: ServeStaticASGI.__call__(scope, receive, send), for one of
\* the given paths with one of the given header bags or for another scope
AsgiRequestFor(urls, bags) ==
    /\ ~crashed
    /\ last = NoCall
    /\ server = "ServeStaticASGI"
    /\ \/ \E path \in urls, method \in Methods, bag \in bags :
             /\ method \in {"GET", "HEAD"} \/ bag = EmptyDict
             /\ last' = ServeStaticASGI_call(fs, Scope("http", path, method, bag))
       \/ \E type \in ScopeTypes \ {"http"} :
             last' = ServeStaticASGI_call(fs, Scope(type, "", "", EmptyDict))
    /\ files' = files_after(files, autorefresh, last')
    /\ UNCHANGED <<fs, config, directories, crashed, added, run>>

AsgiRequest == AsgiRequestFor(Urls, SystemBags)

Next ==
    \/ \E args \in AddFilesArgs : AddFiles(args[1], args[2])
    \/ WsgiRequest
    \/ AsgiRequest
    \/ Return

Spec == Init /\ [][Next]_vars

\* Two roots with a file of the same name, registered under one prefix again
\* and again
PrecedenceArgs == { <<"/srv/b", "static">>, <<"/srv/a/", "/static/">> }

\* How many add_files calls follow the constructor's when the order of the
\* registrations is looked at
MaxReAdds == 2

InitPrecedence ==
    /\ Init
    /\ "/srv/b/app.js" \in DOMAIN fs

NextPrecedence ==
    \/ \E args \in PrecedenceArgs : AddFilesUpTo(MaxReAdds, args[1], args[2])
    \/ WsgiRequest
    \/ AsgiRequest
    \/ Return

SpecPrecedence == InitPrecedence /\ [][NextPrecedence]_vars

\* The responders of an index built once, called directly
InitResponder ==
    /\ fs \in ResponderTrees
    /\ server = "ServeStatic"
    /\ application = "NotFoundWSGI"
    /\ autorefresh = FALSE
    /\ max_age \in {None, Some(60)}
    /\ allow_all_origins = (max_age # None)
    /\ index_file = None
    /\ user_immutable_file_test = None
    /\ Constructed

\* The header bags a method is sent with: other methods than GET and HEAD
\* are sent with and without Range only
BagsFor(self, method) ==
    {bag \in ResponderBags(self) :
        method \in {"GET", "HEAD", "POST"} \/ DOMAIN bag \subseteq {"HTTP_RANGE"}}

\* responder.get_response(method, request_headers)
GetResponse ==
    /\ ~crashed
    /\ last = NoCall
    /\ \E url \in DOMAIN files, method \in Methods :
          \E bag \in BagsFor(files[url], method) :
             LET Returned(outcome) ==
                     Call("get_response", Request("http", url, method, bag), files[url],
                          TRUE, outcome, <<>>, "", 0, <<>>,
                          IF IsError(outcome.response) THEN outcome.response.type ELSE "")
             IN  last' = Returned(get_response(fs, files[url], method, bag))
    /\ files' = files_after(files, FALSE, last')
    /\ UNCHANGED <<fs, config, directories, crashed, added, run>>

\* await responder.aget_response(method, request_headers)
AGetResponse ==
    /\ ~crashed
    /\ last = NoCall
    /\ \E url \in DOMAIN files, method \in Methods :
          \E bag \in BagsFor(files[url], method) :
             LET Returned(outcome) ==
                     Call("aget_response", Request("http", url, method, bag), files[url],
                          TRUE, outcome, <<>>, "", 0, <<>>,
                          IF IsError(outcome.response) THEN outcome.response.type ELSE "")
             IN  last' = Returned(aget_response(files[url], method, bag))
    /\ files' = files_after(files, FALSE, last')
    /\ UNCHANGED <<fs, config, directories, crashed, added, run>>

NextResponder ==
    \/ GetResponse
    \/ AGetResponse
    \/ Return

SpecResponder == InitResponder /\ [][NextResponder]_vars

\* ------------------------------------------------------------------------
\* asgi.py, utils.py: FileServerASGI.__call__ one await at a time.  `run`
\* holds the position of the coroutine (pc), the response, the file object
\* of response.file, the messages passed to send, the chunk read last, the
\* exception on its way out and the number of reads issued on the file.
\* ------------------------------------------------------------------------

\* AsyncFile(path, "rb"), inside an AsyncSlicedFile for a slice: nothing is
\* opened yet.  file_obj is "none", "open" or "closed"; `closed` is the flag
\* of the AsyncFile; seeked, start and remaining are the AsyncSlicedFile's;
\* log lists the calls made on the filesystem for this file, each with the
\* thread it ran on and whether the coroutine awaited it.
AsyncFile(file) ==
    [kind |-> file.kind, path |-> file.path, file_obj |-> "none", closed |-> FALSE,
     pos |-> 0, seeked |-> FALSE, start |-> file.start,
     remaining |-> file.end - file.start + 1, log |-> <<>>]

EventLoopThread == "event loop"

\* A call made on the thread of the coroutine itself
execute_on_event_loop(handle, func) ==
    [handle EXCEPT !.log = Append(@, [func |-> func, thread |-> EventLoopThread,
                                      awaited |-> FALSE])]

\* AsyncFile._execute: await loop.run_in_executor(self.executor, func, *args),
\* the executor being the one thread of this AsyncFile
AsyncFile_execute(handle, func) ==
    [handle EXCEPT !.log = Append(@, [func |-> func, thread |-> "ServeStatic-AsyncFile",
                                      awaited |-> TRUE])]

\* An open_lazy that does not look at the closed flag
open_lazy_of_closed(handle, opens) ==
    IF handle.file_obj = "open" THEN handle
    ELSE IF opens THEN AsyncFile_execute([handle EXCEPT !.file_obj = "open"], "open")
    ELSE [type |-> "OSError", handle |-> AsyncFile_execute(handle, "open")]

\* open_lazy: the file is opened by the first operation on it; `opens` tells
\* whether open() succeeds.  The error carries the file as the failed call
\* left it.
open_lazy(handle, opens) ==
    IF handle.closed THEN [type |-> "ValueError", handle |-> handle]
    ELSE IF handle.file_obj # "none" THEN handle
    ELSE IF opens THEN AsyncFile_execute([handle EXCEPT !.file_obj = "open"], "open")
    ELSE [type |-> "OSError", handle |-> AsyncFile_execute(handle, "open")]

\* A close() that sets the flag and leaves the file object open
AsyncFile_close_flag_only(handle) == [handle EXCEPT !.closed = TRUE]

\* AsyncFile.close (AsyncSlicedFile.close passes on to it)
AsyncFile_close(handle) ==
    IF handle.file_obj # "none"
    THEN AsyncFile_execute([handle EXCEPT !.closed = TRUE, !.file_obj = "closed"], "close")
    ELSE [handle EXCEPT !.closed = TRUE]

\* AsyncFile.seek on an opened file
AsyncFile_seek(handle, offset) == AsyncFile_execute([handle EXCEPT !.pos = offset], "seek")

\* AsyncFile.read on an opened file: the data and the file after it; `reads`
\* tells whether the read succeeds
AsyncFile_read(fsys, handle, size, reads) ==
    LET Read(data) ==
            [handle |-> AsyncFile_execute([handle EXCEPT !.pos = @ + Len(data)], "read"),
             data |-> data, error |-> ""]
        From(content) ==
            Read(SubSeq(content, handle.pos + 1,
                        IF size < 0 THEN Len(content)
                        ELSE Min(handle.pos + size, Len(content))))
    IN  IF reads THEN From(fsys[handle.path].content)
        ELSE [handle |-> AsyncFile_execute(handle, "read"), data |-> "",
              error |-> "OSError"]

\* AsyncSlicedFile.read
AsyncSlicedFile_read(fsys, handle, size, opens, reads) ==
    LET Counted(result) ==
            [result EXCEPT !.handle.remaining = @ - Len(result.data)]
        Seeked(sought) ==
            IF sought.remaining <= 0 THEN [handle |-> sought, data |-> "", error |-> ""]
            ELSE Counted(AsyncFile_read(fsys, sought,
                                        IF size < 0 THEN sought.remaining
                                        ELSE Min(size, sought.remaining), reads))
        Opened(opened) ==
            IF "type" \in DOMAIN opened
            THEN [handle |-> opened.handle, data |-> "", error |-> opened.type]
            ELSE Seeked([AsyncFile_seek(opened, handle.start) EXCEPT !.seeked = TRUE])
    IN  IF handle.seeked THEN Seeked(handle) ELSE Opened(open_lazy(handle, opens))

\* await async_file.read(size) on either kind of file
async_file_read(fsys, handle, size, opens, reads) ==
    LET Opened(opened) ==
            IF "type" \in DOMAIN opened
            THEN [handle |-> opened.handle, data |-> "", error |-> opened.type]
            ELSE AsyncFile_read(fsys, opened, size, reads)
    IN  IF handle.kind = "sliced" THEN AsyncSlicedFile_read(fsys, handle, size, opens, reads)
        ELSE Opened(open_lazy(handle, opens))

\* The http.response.start message of a response
response_start(response) ==
    [type    |-> "http.response.start",
     status  |-> response.status,
     headers |-> [i \in 1..Len(response.headers) |->
                     <<asgi_key(response.headers[i][1]), response.headers[i][2]>>]]

\* A body message that announces more whenever the chunk fills the block
response_body_more_when_full(chunk) ==
    [type |-> "http.response.body", body |-> chunk, more_body |-> Len(chunk) = get_block_size]

\* The http.response.body message of a chunk: more_body = bool(chunk)
response_body(chunk) ==
    [type |-> "http.response.body", body |-> chunk, more_body |-> chunk # ""]

\* The exception of a send that finds the connection dropped, or of the
\* task being cancelled at that await
SendError == "ClientDisconnected"

\* Lines 52-58: the headers are converted and aget_response is awaited
FileServerASGI_respond(static_file, scope) ==
    LET Answered(request, outcome) ==
            IF IsError(outcome.response)
            THEN [pc |-> "raised", request |-> request, response |-> outcome.response,
                  handle |-> AsyncFile(NoFile), sent |-> <<>>, chunk |-> "",
                  error |-> outcome.response.type, reads |-> 0, resolution |-> <<>>]
            ELSE [pc |-> "start", request |-> request, response |-> outcome.response,
                  handle |-> AsyncFile(outcome.response.file), sent |-> <<>>, chunk |-> "",
                  error |-> "", reads |-> 0, resolution |-> <<>>]
        Converted(wsgi_headers) ==
            Answered(Request(scope.type, scope.path, scope.method, wsgi_headers),
                     aget_response(static_file, scope.method, wsgi_headers))
    IN  Converted(DictSet(wsgi_headers_of(scope.headers), "QUERY_STRING", scope.query_string))

\* Lines 61-69: the start message is sent
FileServerASGI_start(r, sends) ==
    IF ~sends THEN [r EXCEPT !.pc = "raised", !.error = SendError]
    ELSE [r EXCEPT !.sent = Append(@, response_start(r.response)),
                   !.pc = IF r.response.file.kind = "none" THEN "empty" ELSE "enter"]

\* Lines 72-74: a response without a file ends with one empty body message
FileServerASGI_empty(r, sends) ==
    IF ~sends THEN [r EXCEPT !.pc = "raised", !.error = SendError]
    ELSE [r EXCEPT !.sent = Append(@, [type |-> "http.response.body", body |-> ""]),
                   !.pc = "returned"]

\* Line 77: async with response.file.  AsyncFile.__aenter__ opens the file
\* (open_lazy); AsyncSlicedFile.__aenter__ opens nothing.  An exception of
\* __aenter__ leaves the call without __aexit__.
FileServerASGI_enter(r, opens) ==
    LET Opened(opened) ==
            IF "type" \in DOMAIN opened
            THEN [r EXCEPT !.pc = "raised", !.error = opened.type, !.handle = opened.handle]
            ELSE [r EXCEPT !.pc = "read", !.handle = opened]
    IN  IF r.handle.kind = "sliced" THEN [r EXCEPT !.pc = "read"]
        ELSE Opened(open_lazy(r.handle, opens))

\* Line 79: chunk = await async_file.read(self.block_size)
FileServerASGI_read(fsys, r, opens, reads) ==
    LET Read(result) ==
            IF result.error # ""
            THEN [r EXCEPT !.pc = "exit", !.error = result.error, !.handle = result.handle,
                           !.reads = @ + 1]
            ELSE [r EXCEPT !.pc = "send", !.chunk = result.data, !.handle = result.handle,
                           !.reads = @ + 1]
    IN  Read(async_file_read(fsys, r.handle, get_block_size, opens, reads))

\* Lines 80-87: the chunk is sent; an empty chunk ends the loop
FileServerASGI_send(r, sends) ==
    IF ~sends THEN [r EXCEPT !.pc = "exit", !.error = SendError]
    ELSE [r EXCEPT !.sent = Append(@, response_body(r.chunk)),
                   !.pc = IF response_body(r.chunk).more_body THEN "read" ELSE "exit"]

\* The end of the async with block: __aexit__ awaits close(), then the call
\* returns or the exception goes on
FileServerASGI_exit(r) ==
    [r EXCEPT !.handle = AsyncFile_close(r.handle),
              !.pc = IF r.error = "" THEN "returned" ELSE "raised"]

\* asyncio.to_thread(func, *args), awaited: the call runs on a worker thread
to_thread(func) == [func |-> func, thread |-> "asyncio.to_thread", awaited |-> TRUE]

\* ServeStaticASGI.__call__ up to the first await of the file server (or to
\* the call of the application): `resolution` lists the calls that went to
\* the filesystem to resolve the path, find_file with its stat calls on live
\* lookup and none for the lookup in the index
ServeStaticASGI_begin(fsys, scope) ==
    LET path == decode_path_info(scope.path)
        NotServed(pc, static_file, error, calls) ==
            [pc |-> pc, request |-> Request(scope.type, scope.path, scope.method, EmptyDict),
             response |-> static_file, handle |-> AsyncFile(NoFile), sent |-> <<>>,
             chunk |-> "", error |-> error, reads |-> 0, resolution |-> calls]
        Resolved(static_file, calls) ==
            IF IsError(static_file) THEN NotServed("raised", static_file, static_file.type, calls)
            ELSE IF static_file.type = "NoneType"
            THEN NotServed("application", static_file, "", calls)
            ELSE [FileServerASGI_respond(static_file, scope) EXCEPT !.resolution = calls]
    IN  IF autorefresh
        THEN Resolved(find_file(fsys, directories, path), <<to_thread("find_file")>>)
        ELSE Resolved(files_get(files, path), <<>>)

\* The trees the responders of the streaming checks are built over: files of
\* no byte, of less than a block, of one block and of more than two blocks
StreamTrees ==
    { ("/srv/a" :> Directory) @@ ("/srv/a/empty.txt" :> File("", 121))
                              @@ ("/srv/a/app.js" :> File("abcdef", 121))
                              @@ ("/srv/a/docs" :> Directory)
                              @@ ("/srv/a/docs/index.html" :> File("<p>docs</p>", 121)),
      ("/srv/a" :> Directory) @@ ("/srv/a/app.js" :> File("abcd", 121))
                              @@ ("/srv/a/app.js.gz" :> File("GZ1", 121)) }

StreamUrls ==
    { "/static/app.js", "/static/app.js.gz", "/static/empty.txt", "/static/docs",
      "/static/docs/", "/static/docs/index.html", "/static/missing.js" }

StreamMethods == {"GET", "HEAD", "POST"}

\* The header bags of the streamed requests: none, ranges of part of a
\* block, of more than a block and of no byte of the file, and the validator
\* of the file itself
StreamBags(self) ==
    { EmptyDict, ("HTTP_RANGE" :> "bytes=1-2"), ("HTTP_RANGE" :> "bytes=0-4"),
      ("HTTP_RANGE" :> "bytes=20-"), ("HTTP_ACCEPT_ENCODING" :> "gzip") }
    \cup (IF self.type = "StaticFile" /\ self.etag # None
          THEN {"HTTP_IF_NONE_MATCH" :> self.etag[1]} ELSE {})

\* The header bags of the requests that go through ServeStaticASGI
StreamRequestBags ==
    { EmptyDict, ("HTTP_RANGE" :> "bytes=1-2"), ("HTTP_RANGE" :> "bytes=0-4"),
      ("HTTP_RANGE" :> "bytes=20-"), ("HTTP_ACCEPT_ENCODING" :> "gzip"),
      ("HTTP_IF_NONE_MATCH" :> "\"3c-6\"") }

InitStream ==
    /\ fs \in StreamTrees
    /\ server = "ServeStaticASGI"
    /\ application = "NotFoundASGI"
    /\ autorefresh \in BOOLEAN
    /\ max_age = Some(60)
    /\ allow_all_origins = TRUE
    /\ index_file = Some("index.html")
    /\ user_immutable_file_test = None
    /\ Constructed

\* await FileServerASGI(static_file)(scope, receive, send) begins for a
\* responder of the index
StreamCall ==
    /\ ~crashed
    /\ run = NoRun
    /\ \E url \in DOMAIN files, method \in StreamMethods :
          \E bag \in StreamBags(files[url]) :
             run' = FileServerASGI_respond(files[url], Scope("http", url, method, bag))
    /\ UNCHANGED <<fs, config, files, directories, crashed, added, last>>

\* await ServeStaticASGI.__call__(scope, receive, send) begins
StreamRequest ==
    /\ ~crashed
    /\ run = NoRun
    /\ \E url \in StreamUrls, method \in StreamMethods, bag \in StreamRequestBags :
          run' = ServeStaticASGI_begin(fs, Scope("http", url, method, bag))
    /\ UNCHANGED <<fs, config, files, directories, crashed, added, last>>

StreamStart ==
    /\ run.pc = "start"
    /\ \E sends \in BOOLEAN : run' = FileServerASGI_start(run, sends)
    /\ UNCHANGED <<fs, config, files, directories, crashed, added, last>>

StreamEmpty ==
    /\ run.pc = "empty"
    /\ \E sends \in BOOLEAN : run' = FileServerASGI_empty(run, sends)
    /\ UNCHANGED <<fs, config, files, directories, crashed, added, last>>

StreamEnter ==
    /\ run.pc = "enter"
    /\ \E opens \in BOOLEAN :
          run' = FileServerASGI_enter(run, opens /\ os_path_isfile(fs, run.handle.path))
    /\ UNCHANGED <<fs, config, files, directories, crashed, added, last>>

StreamRead ==
    /\ run.pc = "read"
    /\ \E opens \in BOOLEAN, reads \in BOOLEAN :
          run' = FileServerASGI_read(fs, run, opens /\ os_path_isfile(fs, run.handle.path),
                                     reads)
    /\ UNCHANGED <<fs, config, files, directories, crashed, added, last>>

StreamSend ==
    /\ run.pc = "send"
    /\ \E sends \in BOOLEAN : run' = FileServerASGI_send(run, sends)
    /\ UNCHANGED <<fs, config, files, directories, crashed, added, last>>

StreamExit ==
    /\ run.pc = "exit"
    /\ run' = FileServerASGI_exit(run)
    /\ UNCHANGED <<fs, config, files, directories, crashed, added, last>>

\* The server takes the result or the exception of the call
StreamReturn ==
    /\ run.pc \in {"returned", "raised", "application"}
    /\ run' = NoRun
    /\ UNCHANGED <<fs, config, files, directories, crashed, added, last>>

NextStream ==
    \/ StreamCall
    \/ StreamRequest
    \/ StreamStart
    \/ StreamEmpty
    \/ StreamEnter
    \/ StreamRead
    \/ StreamSend
    \/ StreamExit
    \/ StreamReturn

SpecStream == InitStream /\ [][NextStream]_vars

\* ------------------------------------------------------------------------
\* wsgi.py: FileServerWSGI.__call__ one statement at a time.  `run` holds
\* the position (pc), the response, the state of the file get_response opened
\* ("none" when it opened none, "open" or "closed"), who holds that file, what
\* was passed to start_response and the exception on its way out.
\* ------------------------------------------------------------------------

\* The exception of a start_response that refuses the call
StartResponseError == "AssertionError"

\* Lines 38-39: get_response opens the file of a GET (and closes it again
\* when the range cannot be satisfied)
FileServerWSGI_respond(fsys, static_file, environ) ==
    LET Answered(outcome) ==
            IF IsError(outcome.response)
            THEN [pc |-> "raised", request |-> EnvironRequest(environ),
                  response |-> outcome.response, file_obj |-> "none",
                  holder |-> "nobody", sent |-> <<>>, error |-> outcome.response.type]
            ELSE [pc |-> "start_response", request |-> EnvironRequest(environ),
                  response |-> outcome.response,
                  file_obj |-> IF outcome.opened = None THEN "none"
                               ELSE IF outcome.closed THEN "closed" ELSE "open",
                  holder |-> IF outcome.opened = None THEN "nobody" ELSE "ServeStatic",
                  sent |-> <<>>, error |-> ""]
    IN  Answered(get_response(fsys, static_file, environ["REQUEST_METHOD"], environ))

\* Line 40: start_response(status_line, list(response.headers)); `starts`
\* tells whether the server accepts the call
FileServerWSGI_start(r, starts) ==
    IF ~starts THEN [r EXCEPT !.pc = "raised", !.error = StartResponseError]
    ELSE [r EXCEPT !.pc = "wrap",
                   !.sent = << [type    |-> "start_response",
                                status  |-> status_line(r.response.status),
                                headers |-> r.response.headers] >>]

\* Lines 41-45: the file goes to the server inside the file wrapper
FileServerWSGI_return(r) ==
    IF r.response.file.kind # "none"
    THEN [r EXCEPT !.pc = "returned", !.holder = "file_wrapper"]
    ELSE [r EXCEPT !.pc = "returned"]

\* The server is done with the iterable and calls its close(): FileWrapper
\* passes it on to the file (SlicedFile.close to the file inside it)
FileWrapper_close(r) ==
    [r EXCEPT !.pc = "closed", !.file_obj = IF r.holder = "file_wrapper" THEN "closed" ELSE @]

InitWsgiFile ==
    /\ fs \in StreamTrees
    /\ server = "ServeStatic"
    /\ application = "NotFoundWSGI"
    /\ autorefresh = FALSE
    /\ max_age = Some(60)
    /\ allow_all_origins = TRUE
    /\ index_file = Some("index.html")
    /\ user_immutable_file_test = None
    /\ Constructed

\* FileServerWSGI(static_file)(environ, start_response) begins
WsgiFileCall ==
    /\ ~crashed
    /\ run = NoRun
    /\ \E url \in DOMAIN files, method \in StreamMethods :
          \E bag \in StreamBags(files[url]) :
             run' = FileServerWSGI_respond(fs, files[url], Environ(url, method, bag))
    /\ UNCHANGED <<fs, config, files, directories, crashed, added, last>>

WsgiFileStart ==
    /\ run.pc = "start_response"
    /\ \E starts \in BOOLEAN : run' = FileServerWSGI_start(run, starts)
    /\ UNCHANGED <<fs, config, files, directories, crashed, added, last>>

WsgiFileReturn ==
    /\ run.pc = "wrap"
    /\ run' = FileServerWSGI_return(run)
    /\ UNCHANGED <<fs, config, files, directories, crashed, added, last>>

WsgiFileClose ==
    /\ run.pc = "returned"
    /\ run' = FileWrapper_close(run)
    /\ UNCHANGED <<fs, config, files, directories, crashed, added, last>>

\* The server turns to the next request
WsgiFileDone ==
    /\ run.pc \in {"closed", "raised"}
    /\ run' = NoRun
    /\ UNCHANGED <<fs, config, files, directories, crashed, added, last>>

NextWsgiFile ==
    \/ WsgiFileCall
    \/ WsgiFileStart
    \/ WsgiFileReturn
    \/ WsgiFileClose
    \/ WsgiFileDone

SpecWsgiFile == InitWsgiFile /\ [][NextWsgiFile]_vars

\* ------------------------------------------------------------------------
\* responders.py: SlicedFile and AsyncSlicedFile, one read(size) call at a
\* time.  `run` holds the file object of a 206 response, the object as it
\* was before the read made last, what that read returned, and the number
\* of reads made and of bytes returned so far.
\* ------------------------------------------------------------------------

\* The thread of the caller of a synchronous file
CallerThread == "caller"

\* A call on the file object made by the caller itself
file_call(handle, func) ==
    [handle EXCEPT !.log = Append(@, [func |-> func, thread |-> CallerThread,
                                      awaited |-> FALSE])]

\* SlicedFile(open(path, "rb"), start, end): the file is open already
BufferedSlicedFile(file) ==
    [kind |-> file.kind, path |-> file.path, file_obj |-> "open", closed |-> FALSE,
     pos |-> 0, seeked |-> FALSE, start |-> file.start,
     remaining |-> file.end - file.start + 1, log |-> <<>>]

\* fileobj.read(size) of the open file; `reads` tells whether it succeeds
file_read(fsys, handle, size, reads) ==
    LET Read(data) ==
            [handle |-> file_call([handle EXCEPT !.pos = @ + Len(data)], "read"),
             data |-> data, error |-> ""]
        From(content) ==
            Read(SubSeq(content, handle.pos + 1, Min(handle.pos + size, Len(content))))
    IN  IF reads THEN From(fsys[handle.path].content)
        ELSE [handle |-> file_call(handle, "read"), data |-> "", error |-> "OSError"]

\* A read that seeks to the start of the slice each time it is called
SlicedFile_read_seeking_each_time(fsys, handle, size, reads) ==
    LET Counted(result) ==
            [result EXCEPT !.handle.remaining = @ - Len(result.data)]
        Seeked(sought) ==
            IF sought.remaining <= 0 THEN [handle |-> sought, data |-> "", error |-> ""]
            ELSE Counted(file_read(fsys, sought,
                                   IF size < 0 THEN sought.remaining
                                   ELSE Min(size, sought.remaining), reads))
    IN  Seeked([file_call([handle EXCEPT !.pos = handle.start], "seek")
                   EXCEPT !.seeked = TRUE])

\* SlicedFile.read(size)
SlicedFile_read(fsys, handle, size, reads) ==
    LET Counted(result) ==
            [result EXCEPT !.handle.remaining = @ - Len(result.data)]
        Seeked(sought) ==
            IF sought.remaining <= 0 THEN [handle |-> sought, data |-> "", error |-> ""]
            ELSE Counted(file_read(fsys, sought,
                                   IF size < 0 THEN sought.remaining
                                   ELSE Min(size, sought.remaining), reads))
    IN  IF handle.seeked THEN Seeked(handle)
        ELSE Seeked([file_call([handle EXCEPT !.pos = handle.start], "seek")
                        EXCEPT !.seeked = TRUE])

\* How many read(size) calls are made on one sliced file
MaxReads == 4

\* The sizes asked for: everything, nothing, single bytes, and blocks
ReadSizes == {-1, 0, 1, 2, BlockSize}

\* Ranges of the six bytes of app.js and of the shorter variants
SlicedRanges == {"bytes=0-1", "bytes=2-99", "bytes=-2", "bytes= 1-3 ", "bytes=3-", "bytes=0-"}

SlicedBags ==
    { ae @@ ("HTTP_RANGE" :> range) :
        ae \in Optional("HTTP_ACCEPT_ENCODING", {"gzip"}), range \in SlicedRanges }

\* What is left of a file that is cut while it is being read
TruncatedContent == "abc"

\* The sliced file of a 206 response, before its first read
SlicedObject(form, file) ==
    [pc |-> "sliced", form |-> form,
     handle |-> IF form = "sync" THEN BufferedSlicedFile(file) ELSE AsyncFile(file),
     prev |-> IF form = "sync" THEN BufferedSlicedFile(file) ELSE AsyncFile(file),
     size |-> 0, data |-> "", error |-> "", calls |-> 0, returned |-> 0,
     length |-> file.end - file.start + 1]

\* The object after one more read(size)
SlicedAfterRead(r, size, result) ==
    [r EXCEPT !.handle = result.handle, !.prev = r.handle, !.size = size,
              !.data = result.data, !.error = result.error, !.calls = @ + 1,
              !.returned = @ + Len(result.data)]

InitSliced ==
    /\ fs \in StreamTrees
    /\ server = "ServeStatic"
    /\ application = "NotFoundWSGI"
    /\ autorefresh = FALSE
    /\ max_age = Some(60)
    /\ allow_all_origins = TRUE
    /\ index_file = None
    /\ user_immutable_file_test = None
    /\ Constructed

\* A GET with a Range that a StaticFile answers 206: get_response or
\* aget_response builds the sliced file
SlicedCall ==
    /\ ~crashed
    /\ run = NoRun
    /\ \E url \in DOMAIN files, form \in {"sync", "async"}, bag \in SlicedBags :
          LET Built(outcome) ==
                  /\ outcome.response.type = "Response"
                  /\ outcome.response.file.kind = "sliced"
                  /\ run' = SlicedObject(form, outcome.response.file)
          IN  IF form = "sync" THEN Built(get_response(fs, files[url], "GET", bag))
              ELSE Built(aget_response(files[url], "GET", bag))
    /\ UNCHANGED <<fs, config, files, directories, crashed, added, last>>

\* One read(size) on the sliced file
SlicedRead ==
    /\ run.pc = "sliced"
    /\ run.calls < MaxReads
    /\ \E size \in ReadSizes, opens \in BOOLEAN, reads \in BOOLEAN :
          /\ run.form = "sync" => opens
          /\ run' = SlicedAfterRead(run, size,
                        IF run.form = "sync"
                        THEN SlicedFile_read(fs, run.handle, size, reads)
                        ELSE AsyncSlicedFile_read(fs, run.handle, size, opens, reads))
    /\ UNCHANGED <<fs, config, files, directories, crashed, added, last>>

\* Somebody cuts the file while it is being read
SlicedTruncate ==
    /\ run.pc = "sliced"
    /\ Len(fs[run.handle.path].content) > Len(TruncatedContent)
    /\ fs' = [fs EXCEPT ![run.handle.path].content = TruncatedContent]
    /\ UNCHANGED <<config, files, directories, crashed, added, last, run>>

\* The caller closes the file and lets go of it
SlicedDone ==
    /\ run.pc = "sliced"
    /\ run' = NoRun
    /\ UNCHANGED <<fs, config, files, directories, crashed, added, last>>

NextSliced ==
    \/ SlicedCall
    \/ SlicedRead
    \/ SlicedTruncate
    \/ SlicedDone

SpecSliced == InitSliced /\ [][NextSliced]_vars

\* ------------------------------------------------------------------------
\* Requests between which the files under the registered roots change
\* ------------------------------------------------------------------------

\* The tree the instance is constructed over: both roots, app.js in the first
LiveTree == BaseTree

LiveArgs == <<"/srv/b", "static">>

LiveUrls == {"/static/app.js", "/static/new.js", "/static/missing.js"}

LiveBags == {EmptyDict, ("HTTP_IF_NONE_MATCH" :> "\"3c-6\"")}

\* The files written between requests: a new file in the first root, a new
\* version of app.js there, and a file of that name in the second root
LiveWrites ==
    { <<"/srv/a/new.js", File("new", 9)>>,
      <<"/srv/a/app.js", File("abcdefgh", 240)>>,
      <<"/srv/b/app.js", File("B!", 7)>> }

LiveDeletes == {"/srv/a/app.js", "/srv/a/new.js"}

InitLive ==
    /\ fs = LiveTree
    /\ server \in {"ServeStatic", "ServeStaticASGI"}
    /\ application = "user_app"
    /\ autorefresh \in BOOLEAN
    /\ max_age = Some(60)
    /\ allow_all_origins = TRUE
    /\ index_file = None
    /\ user_immutable_file_test = None
    /\ Constructed

\* add_files for the second root, before any file changes
LiveAddFiles ==
    /\ fs = LiveTree
    /\ AddFiles(LiveArgs[1], LiveArgs[2])

\* Somebody writes a file under a registered root between two requests
WriteFile ==
    /\ last = NoCall
    /\ \E write \in LiveWrites :
          /\ IF write[1] \in DOMAIN fs THEN fs[write[1]] # write[2] ELSE TRUE
          /\ fs' = [path \in DOMAIN fs \cup {write[1]} |->
                       IF path = write[1] THEN write[2] ELSE fs[path]]
    /\ UNCHANGED <<config, files, directories, crashed, added, last, run>>

\* Somebody deletes a file under a registered root between two requests
DeleteFile ==
    /\ last = NoCall
    /\ \E path \in LiveDeletes :
          /\ path \in DOMAIN fs
          /\ fs' = [other \in DOMAIN fs \ {path} |-> fs[other]]
    /\ UNCHANGED <<config, files, directories, crashed, added, last, run>>

NextLive ==
    \/ LiveAddFiles
    \/ WriteFile
    \/ DeleteFile
    \/ WsgiRequestFor(LiveUrls, LiveBags)
    \/ AsgiRequestFor(LiveUrls, LiveBags)
    \/ Return

SpecLive == InitLive /\ [][NextLive]_vars

\* ------------------------------------------------------------------------
\* Indexes built with and without an immutability pattern, with and without
\* a max_age
\* ------------------------------------------------------------------------

\* A tree with a compressed variant and an index file
CacheTree ==
    BaseTree @@ ("/srv/a/app.js.gz" :> File("GZ12", 121))
             @@ ("/srv/a/docs" :> Directory)
             @@ ("/srv/a/docs/index.html" :> File("<p>docs</p>", 121))
             @@ ("/srv/b/app.js" :> File("B!", 7))

\* immutable_file_test given as a string: searched in the URL
CachePatterns == {"app", "static/d", "srv"}

CacheArgs == { <<"/srv/b", "static//v2">>, <<"/srv/b/", "">> }

CacheUrls ==
    { "/static/app.js", "/static/docs/", "/static/docs/index.html",
      "/static//v2/app.js", "/app.js", "/static/missing.js" }

CacheBags == { EmptyDict, ("HTTP_ACCEPT_ENCODING" :> "gzip") }

InitCache ==
    /\ fs = CacheTree
    /\ server \in {"ServeStatic", "ServeStaticASGI"}
    /\ application = "user_app"
    /\ autorefresh \in BOOLEAN
    /\ max_age \in {None, Some(60), Some(0)}
    /\ allow_all_origins \in BOOLEAN
    /\ index_file \in {None, Some("index.html")}
    /\ user_immutable_file_test \in {None} \cup {Some(pattern) : pattern \in CachePatterns}
    /\ Constructed

CacheAddFiles == \E args \in CacheArgs : AddFiles(args[1], args[2])

CacheWsgiRequest == WsgiRequestFor(CacheUrls, CacheBags)

CacheAsgiRequest == AsgiRequestFor(CacheUrls, CacheBags)

NextCache ==
    \/ CacheAddFiles
    \/ CacheWsgiRequest
    \/ CacheAsgiRequest
    \/ Return

SpecCache == InitCache /\ [][NextCache]_vars

\* ------------------------------------------------------------------------
\* storage.py: post_process of the two staticfiles storages, over the files
\* under the static root.  `last` holds the call made last with the tree it
\* began on.
\* ------------------------------------------------------------------------

\* settings.STATIC_ROOT and the storage's manifest_name
STATIC_ROOT == "/srv/a"

manifest_name == "staticfiles.json"

\* self.path(name)
storage_path(name) == STATIC_ROOT \o "/" \o name

\* A tree with one more file, and with one file less
WithFile(fsys, path, file) ==
    [p \in DOMAIN fsys \cup {path} |-> IF p = path THEN file ELSE fsys[p]]

WithoutFile(fsys, path) == [p \in DOMAIN fsys \ {path} |-> fsys[p]]

\* The extensions SERVESTATIC_SKIP_COMPRESS_EXTENSIONS names
SkipCompressExtensions == {".jpg", ".gz", ".br"}

\* Compressor.should_compress(filename)
should_compress(filename) ==
    ~\E ext \in SkipCompressExtensions : endswith(filename, ext)

\* The data with every run of one byte taken down to one byte
RECURSIVE Squeeze(_)
Squeeze(data) ==
    IF Len(data) <= 1 THEN data
    ELSE IF SubSeq(data, 1, 1) = SubSeq(data, 2, 2) THEN Squeeze(DropFirst(data, 1))
    ELSE SubSeq(data, 1, 1) \o Squeeze(DropFirst(data, 1))

compress_brotli(data) == "BR" \o Squeeze(data)

compress_gzip(data) == "GZIP" \o Squeeze(data)

\* Compressor.is_compressed_effectively: at most 95% of the original size
is_compressed_effectively(orig_size, compressed_size) ==
    IF orig_size = 0 THEN FALSE ELSE compressed_size * 100 <= 95 * orig_size

\* Compressor.compress(path): the siblings written next to the file with the
\* file's mtime; no gzip sibling when Brotli was not effective
Compressor_compress(fsys, path) ==
    LET data == fsys[path].content
        Sibling(compressed) == File(compressed, fsys[path].mtime)
        WithBr == WithFile(fsys, path \o ".br", Sibling(compress_brotli(data)))
    IN  IF ~is_compressed_effectively(Len(data), Len(compress_brotli(data)))
        THEN [fs |-> fsys, written |-> {}]
        ELSE IF ~is_compressed_effectively(Len(data), Len(compress_gzip(data)))
        THEN [fs |-> WithBr, written |-> {path \o ".br"}]
        ELSE [fs |-> WithFile(WithBr, path \o ".gz", Sibling(compress_gzip(data))),
              written |-> {path \o ".br", path \o ".gz"}]

\* compress_files(paths) / the thread pool of post_process: every name that
\* should be compressed is compressed; the files written are distinct, so
\* the order of the threads does not show in the tree
RECURSIVE compress_files(_, _)
compress_files(fsys, names) ==
    IF names = {} THEN [fs |-> fsys, yielded |-> {}]
    ELSE LET name == CHOOSE n \in names : TRUE
             Rest(after) ==
                 LET rest == compress_files(after.fs, names \ {name})
                 IN  [fs |-> rest.fs,
                      yielded |-> rest.yielded \cup
                          {<<name, DropFirst(written, Len(STATIC_ROOT) + 1), TRUE>> :
                               written \in after.written}]
         IN  IF should_compress(name)
             THEN Rest(Compressor_compress(fsys, storage_path(name)))
             ELSE compress_files(fsys, names \ {name})

\* CompressedStaticFilesStorage.post_process(paths, dry_run)
CompressedStaticFilesStorage_post_process(fsys, paths, dry_run) ==
    IF dry_run THEN [fs |-> fsys, yielded |-> {}]
    ELSE compress_files(fsys, paths)

\* os.path.splitext(name): the place of the last dot, 0 without one
RECURSIVE LastDot(_, _)
LastDot(name, i) ==
    IF i = 0 THEN 0
    ELSE IF SubSeq(name, i, i) = "." THEN i ELSE LastDot(name, i - 1)

\* The digest in a hashed name: a short hexadecimal word made from the content
file_hash(content) == hex(4096 + 17 * Len(Squeeze(content)) + Len(content))

\* HashedFilesMixin.hashed_name(name, content): the digest before the extension
hashed_name(name, content) ==
    LET dot == LastDot(name, Len(name))
    IN  IF dot = 0 THEN name \o "." \o file_hash(content)
        ELSE SubSeq(name, 1, dot) \o file_hash(content) \o DropFirst(name, dot - 1)

\* read_manifest(): the content of the manifest, None without the file
read_manifest(fsys) ==
    IF storage_path(manifest_name) \in DOMAIN fsys
    THEN Some(fsys[storage_path(manifest_name)].content)
    ELSE None

\* manifest_storage.delete(manifest_name); manifest_storage._save(manifest_name, content)
save_manifest_file(fsys, content, now) ==
    WithFile(fsys, storage_path(manifest_name), File(content, now))

\* ManifestStaticFilesStorage.post_process(paths, dry_run): nothing on a dry
\* run; else every name is saved under its hashed name, yielded, and the
\* manifest of the hashed names is saved
ManifestStaticFilesStorage_post_process(fsys, paths, dry_run, now) ==
    LET Hashed(name) == hashed_name(name, fsys[storage_path(name)].content)
        Copies == [p \in DOMAIN fsys \cup {storage_path(Hashed(name)) : name \in paths} |->
                      IF p \in DOMAIN fsys THEN fsys[p]
                      ELSE File(fsys[storage_path(CHOOSE name \in paths :
                                                      storage_path(Hashed(name)) = p)].content,
                                now)]
        hashed_files == [name \in paths |-> Hashed(name)]
    IN  IF dry_run THEN [fs |-> fsys, yielded |-> {}, new_files |-> {}]
        ELSE [fs |-> save_manifest_file(Copies,
                        ("paths" :> hashed_files) @@ ("version" :> "1.1"), now),
              yielded |-> {<<name, Hashed(name), TRUE>> : name \in paths},
              new_files |-> {Hashed(name) : name \in paths}]

\* delete_files(files_to_delete): a file that is not there is passed over
RECURSIVE delete_files(_, _)
delete_files(fsys, files_to_delete) ==
    IF files_to_delete = {} THEN fsys
    ELSE LET name == CHOOSE n \in files_to_delete : TRUE
         IN  delete_files(IF storage_path(name) \in DOMAIN fsys
                          THEN WithoutFile(fsys, storage_path(name)) ELSE fsys,
                          files_to_delete \ {name})

\* post_process_with_compression(files)
post_process_with_compression(processed, keep_only_hashed_files) ==
    LET hashed_names == {<<item[1], item[2]>> : item \in processed.yielded}
        original_files == {pair[1] : pair \in hashed_names}
        hashed_files == {pair[2] : pair \in hashed_names}
        files_to_delete ==
            IF keep_only_hashed_files
            THEN (original_files \cup processed.new_files) \ hashed_files
            ELSE {}
        files_to_compress ==
            IF keep_only_hashed_files THEN hashed_files
            ELSE original_files \cup hashed_files
        Compressed(result) ==
            [fs |-> result.fs, yielded |-> processed.yielded \cup result.yielded]
    IN  Compressed(compress_files(delete_files(processed.fs, files_to_delete),
                                  files_to_compress))

\* The stat of a file, as the manifest keeps it
StatOf(file) == [st_size |-> Len(file.content), st_mtime |-> file.mtime]

\* stat_static_root(): the stat of every file under the static root but the
\* manifest, by its path below the root
stat_static_root(fsys) ==
    LET file_paths == {p \in DOMAIN fsys :
                          /\ startswith(p, STATIC_ROOT \o "/")
                          /\ fsys[p].kind = "file"
                          /\ ~endswith(p, "/" \o manifest_name)}
        names == {DropFirst(p, Len(STATIC_ROOT) + 1) : p \in file_paths}
    IN  [name \in names |-> StatOf(fsys[storage_path(name)])]

\* add_stats_to_manifest(): the manifest is deleted and saved again with the
\* stats of the static root
add_stats_to_manifest(fsys, now) ==
    LET current == read_manifest(fsys)
        loaded == IF current # None THEN current[1] ELSE EmptyDict
        payload == [k \in DOMAIN loaded \cup {"stats"} |->
                       IF k = "stats" THEN stat_static_root(fsys) ELSE loaded[k]]
    IN  save_manifest_file(fsys, payload, now)

\* CompressedManifestStaticFilesStorage.post_process(paths, dry_run=...), run
\* to its end
CompressedManifestStaticFilesStorage_post_process(fsys, paths, dry_run, keep_only, now) ==
    LET processed == ManifestStaticFilesStorage_post_process(fsys, paths, dry_run, now)
        Stats(result) ==
            [fs |-> add_stats_to_manifest(result.fs, now), yielded |-> result.yielded]
    IN  IF ~dry_run
        THEN Stats(post_process_with_compression(processed, keep_only))
        ELSE Stats([fs |-> processed.fs, yielded |-> processed.yielded])

\* The files collectstatic finds and copies under the static root
CollectedFiles ==
    ("styles.css" :> File("aaaaaaaaaaaa", 100)) @@
    ("small.js" :> File("hi", 100)) @@
    ("logo.jpg" :> File("jjjjjjjj", 100))

\* The times at which post_process writes
StorageClock == {300, 301}

StorageBackends == {"CompressedStaticFilesStorage", "CompressedManifestStaticFilesStorage"}

\* The static root before anything was collected
StorageTree == ("/srv" :> Directory) @@ ("/srv/a" :> Directory)

InitStorage ==
    /\ fs = StorageTree
    /\ server = "ServeStatic"
    /\ application = "user_app"
    /\ autorefresh = FALSE
    /\ max_age = Some(60)
    /\ allow_all_origins = TRUE
    /\ index_file = None
    /\ user_immutable_file_test = None
    /\ files = EmptyDict
    /\ directories = <<>>
    /\ crashed = FALSE
    /\ added = <<>>
    /\ last = NoCall
    /\ run = NoRun

\* The post_process call made last
PostProcessCall(backend, paths, dry_run, before, result) ==
    [op |-> "post_process", backend |-> backend, paths |-> paths, dry_run |-> dry_run,
     before |-> before, yielded |-> result.yielded]

\* The found files that are under the static root
Collected(fsys) == {name \in DOMAIN CollectedFiles : storage_path(name) \in DOMAIN fsys}

\* collectstatic copies one found file under the static root
CollectFile ==
    /\ last = NoCall
    /\ \E name \in DOMAIN CollectedFiles :
          /\ storage_path(name) \notin DOMAIN fs
          /\ fs' = WithFile(fs, storage_path(name), CollectedFiles[name])
    /\ UNCHANGED <<config, files, directories, crashed, added, last, run>>

\* collectstatic runs storage.post_process(found_files, dry_run=dry_run) to
\* its end, with the files it found; without dry_run they were copied before
PostProcess ==
    /\ last = NoCall
    /\ \E backend \in StorageBackends, paths \in {Collected(fs), DOMAIN CollectedFiles},
          dry_run \in BOOLEAN, keep_only_hashed_files \in BOOLEAN, now \in StorageClock :
          /\ backend = "CompressedStaticFilesStorage" => ~keep_only_hashed_files
          /\ dry_run => ~keep_only_hashed_files
          /\ paths # {}
          /\ IF dry_run THEN TRUE ELSE paths = Collected(fs)
          /\ LET Done(result) ==
                     /\ fs' = result.fs
                     /\ last' = PostProcessCall(backend, paths, dry_run, fs, result)
             IN  IF backend = "CompressedStaticFilesStorage"
                 THEN Done(CompressedStaticFilesStorage_post_process(fs, paths, dry_run))
                 ELSE Done(CompressedManifestStaticFilesStorage_post_process(
                               fs, paths, dry_run, keep_only_hashed_files, now))
    /\ UNCHANGED <<config, files, directories, crashed, added, run>>

NextStorage ==
    \/ CollectFile
    \/ PostProcess
    \/ Return

SpecStorage == InitStorage /\ [][NextStorage]_vars

\* ------------------------------------------------------------------------
\* Properties of the entry points (specification Spec)
\* ------------------------------------------------------------------------

\* The last step was a call of ServeStatic.__call__ or ServeStaticASGI.__call__
EntryPointCalled == last.op \in {"wsgi", "asgi"}

\* What the path of the last request resolves to in the present state
ResolutionOfLast ==
    IF last.request.scope_type # "http" THEN NoResponder
    ELSE IF autorefresh
    THEN find_file(fs, directories, decode_path_info(last.request.path))
    ELSE files_get(files, decode_path_info(last.request.path))

\* The built-in application answered 404 Not Found
FallbackSent404 ==
    /\ Len(last.app_sent) = 2
    /\ last.app_sent[1].status = (IF last.op = "wsgi" THEN "404 Not Found" ELSE 404)
    /\ last.app_sent[2].body = "Not Found"

\* C1: every call of an entry point either serves the responder the path
\* resolves to and does not call the wrapped application, or - the path
\* resolving to nothing, which includes every ASGI scope that is not http -
\* calls the application exactly once and emits nothing itself, the built-in
\* application answering HTTP requests with 404 Not Found.
C1_ServeOrDelegate ==
    EntryPointCalled =>
        \/ /\ ResolutionOfLast.type \in {"StaticFile", "Redirect"}
           /\ last.resolved = ResolutionOfLast
           /\ last.served
           /\ last.app_calls = 0
        \/ /\ ResolutionOfLast.type = "NoneType"
           /\ ~last.served
           /\ last.app_calls = 1
           /\ last.sent = <<>> /\ last.body = ""
           /\ (application \in {"NotFoundWSGI", "NotFoundASGI"}
                 /\ last.request.scope_type = "http") => FallbackSent404

\* C1 for the calls whose resolution raises nothing
C1_ServeOrDelegateUnlessRaised ==
    (EntryPointCalled /\ ~IsError(ResolutionOfLast)) => C1_ServeOrDelegate

\* The (root, prefix) pairs of the add_files calls made, each written as
\* the absolute root and the prefix with both slashes it stands for
RegisteredAs(pair) ==
    CASE pair = <<"/srv/a", "static">>     -> <<"/srv/a/", "/static/">>
      [] pair = <<"/srv/a/", "/static/">>  -> <<"/srv/a/", "/static/">>
      [] pair = <<"/srv/b", "static">>     -> <<"/srv/b/", "/static/">>
      [] pair = <<"/srv/b/", "">>          -> <<"/srv/b/", "/">>
      [] pair = <<"/srv/b", "static//v2">> -> <<"/srv/b/", "/static//v2/">>
      [] OTHER                             -> <<"/srv/none/", "/static/">>

Registered == {RegisteredAs(added[i]) : i \in 1..Len(added)}

\* The regular files under a registered root whose URL u is: prefix +
\* relative path when own is TRUE, prefix + directory + "/" of an index file
\* when own is FALSE
SourceFiles(u, own) ==
    { path \in DOMAIN fs :
        /\ fs[path].kind = "file"
        /\ \E reg \in Registered :
              /\ startswith(path, reg[1])
              /\ IF own THEN u = reg[2] \o DropFirst(path, Len(reg[1]))
                 ELSE /\ index_file # None
                      /\ endswith(u, "/")
                      /\ u \o index_file[1] = reg[2] \o DropFirst(path, Len(reg[1])) }

\* The last call was a GET of an indexed URL with no other request header
PlainGetOfIndexed ==
    /\ EntryPointCalled /\ ~autorefresh
    /\ last.request.method = "GET"
    /\ DOMAIN last.request.request_headers \subseteq {"PATH_INFO", "REQUEST_METHOD", "QUERY_STRING"}
    /\ DictGet(last.request.request_headers, "QUERY_STRING", "") = ""
    /\ decode_path_info(last.request.path) \in DOMAIN files

\* The last call answered 200 with the contents and the size of one of the files
RoundTrip(sources) ==
    /\ last.sent # <<>>
    /\ last.sent[1].status = (IF last.op = "wsgi" THEN "200 OK" ELSE 200)
    /\ \E path \in sources :
          /\ last.body = fs[path].content
          /\ HeadersGet(last.sent[1].headers, "Content-Length") = Some(str(Len(fs[path].content)))

\* C2 as stated: every URL of the index is the URL prefix + relative path of
\* a file under a registered root, and a plain GET of it streams that file's
\* contents with its size as Content-Length.
C2_EveryIndexedUrlRoundTrips ==
    PlainGetOfIndexed => RoundTrip(SourceFiles(decode_path_info(last.request.path), TRUE))

\* C2, amended: a plain GET of an indexed URL whose entry is a StaticFile
\* streams the contents, with the size as Content-Length, of a file under a
\* registered root whose URL it is - prefix + relative path or, with an
\* index file configured, the directory URL of an index file; the entries
\* that are not StaticFiles are redirects, answered 302 without a body.
C2_StaticFileRoundTrips ==
    PlainGetOfIndexed =>
        IF last.resolved.type = "StaticFile"
        THEN RoundTrip(SourceFiles(decode_path_info(last.request.path), TRUE)
                       \cup SourceFiles(decode_path_info(last.request.path), FALSE))
        ELSE /\ last.resolved.type = "Redirect" /\ index_file # None
             /\ last.sent # <<>>
             /\ last.sent[1].status = (IF last.op = "wsgi" THEN "302 Found" ELSE 302)
             /\ last.body = ""

\* A directory URL was answered with the contents of the directory's index file
C2_Witness ==
    /\ PlainGetOfIndexed
    /\ last.request.path = "/static/docs/"
    /\ last.resolved.type = "StaticFile"
    /\ last.body = "<p>docs</p>"

\* The last call asked an entry point for a URL that resolved to a responder
\* with PUT, POST or DELETE
WriteMethodOnResolved ==
    /\ EntryPointCalled
    /\ last.request.method \in {"PUT", "POST", "DELETE"}
    /\ last.resolved.type \in {"StaticFile", "Redirect"}

\* The entry point sent this status, as WSGI and ASGI write it
SentStatus(code, line) ==
    /\ last.sent # <<>>
    /\ last.sent[1].status = (IF last.op = "wsgi" THEN line ELSE code)

SentNotAllowed ==
    /\ SentStatus(405, "405 Method Not Allowed")
    /\ HeadersGet(last.sent[1].headers, "Allow") = Some("GET, HEAD")
    /\ last.body = ""

\* C4 as stated: PUT, POST and DELETE are answered 405 with Allow: GET, HEAD
\* at every URL that resolves to a responder, StaticFile or Redirect.
C4_WriteMethodsNotAllowedAnywhere == WriteMethodOnResolved => SentNotAllowed

\* C4, amended: PUT, POST and DELETE are answered 405 with Allow: GET, HEAD
\* at every URL that resolves to a StaticFile; at a URL that resolves to a
\* Redirect they are answered like GET, with the 302 and its Location.
C4_WriteMethodsNotAllowedOnStaticFiles ==
    WriteMethodOnResolved =>
        IF last.resolved.type = "StaticFile" THEN SentNotAllowed
        ELSE /\ SentStatus(302, "302 Found")
             /\ HeadersHas(last.sent[1].headers, "Location")
             /\ ~HeadersHas(last.sent[1].headers, "Allow")

\* A DELETE of a StaticFile's URL was answered 405
C4_Witness ==
    /\ WriteMethodOnResolved
    /\ last.request.method = "DELETE"
    /\ last.resolved.type = "StaticFile"
    /\ SentNotAllowed

\* The last step called an entry point and the URL resolved to a Redirect
RedirectAsked ==
    /\ last.op \in {"wsgi", "asgi"}
    /\ last.served
    /\ last.resolved.type = "Redirect"

\* The percent-encoded relative location the redirect of a URL of the
\* requests is built with
BareLocation(url) ==
    CASE url = "/static/docs"            -> "docs/"
      [] url = "/static/docs/index.html" -> "./"
      [] url = "/static/index.html"      -> "./"
      [] url = "/static"                 -> "static/"
      [] url = "/my docs"                -> "my%20docs/"
      [] url = "/static/my docs"         -> "my%20docs/"
      [] url = "/static//v2/my docs"     -> "my%20docs/"
      [] url = "/my docs/index.html"     -> "./"
      [] OTHER                           -> "?"

\* The query string of the last request
QueryStringOfLast == DictGet(last.request.request_headers, "QUERY_STRING", "")

\* The response to a request for a Redirect is the body-less 302 with the
\* bare location, followed by '?' and the query string iff there is one
RedirectAnswered ==
    RedirectAsked =>
        /\ last.raised = ""
        /\ last.outcome.response.status = 302
        /\ last.outcome.response.file.kind = "none"
        /\ last.outcome.opened = None
        /\ last.body = ""
        /\ last.outcome.response.headers =
              << <<"Cache-Control", "max-age=60, public">>,
                 <<"Location",
                   BareLocation(last.request.path)
                   \o (IF QueryStringOfLast # "" THEN "?" \o QueryStringOfLast ELSE "")>> >>

\* A call of an entry point leaves the index and every responder in it as
\* they were
RequestKeepsFiles == (last' # NoCall) => (files' = files)

\* C15: every response of a Redirect is a body-less 302 whose Location is the
\* precomputed percent-encoded location, followed by '?' and the query
\* string iff the request has a non-empty one; no request changes the
\* precomputed response or its header list, so a request without a query
\* string still gets the bare Location after requests with one.
C15_RedirectKeepsLocation == []RedirectAnswered /\ [][RequestKeepsFiles]_vars

\* The redirect of a directory whose name holds a space was asked with a
\* query string, by an index built once
C15_Witness ==
    /\ RedirectAsked /\ ~autorefresh
    /\ last.request.path = "/my docs"
    /\ QueryStringOfLast = "v=1"
    /\ HeadersGet(last.outcome.response.headers, "Location") = Some("my%20docs/?v=1")

\* The index was built by scanning, with an index file name configured
IndexBuiltWithIndexFile == ~autorefresh /\ ~crashed /\ index_file # None

\* The files a scan registers, each with its URL: <<path, url>> for every
\* regular file under a registered root that is no compressed variant of a
\* file beside it
Scanned ==
    UNION { { <<path, reg[2] \o DropFirst(path, Len(reg[1]))>> :
                path \in {q \in DOMAIN fs :
                             /\ fs[q].kind = "file"
                             /\ startswith(q, reg[1])
                             /\ ~(endswith(q, ".gz") /\ DropLast(q, 3) \in DOMAIN fs)} } :
            reg \in Registered }

\* The URL of a scanned file ends with '/<index>'
IsIndexUrl(url) == endswith(url, "/index.html")

\* The directory URL of an index file's URL, with its trailing slash
DirectoryUrl(url) == DropLast(url, Len("index.html"))

\* The entries registering a scanned file creates
EntriesOf(url) ==
    IF IsIndexUrl(url)
    THEN {url, DirectoryUrl(url), rstrip(DirectoryUrl(url), "/")}
    ELSE {url}

\* The entry is a Redirect with this relative location
RedirectsTo(entry, location) ==
    /\ entry.type = "Redirect"
    /\ entry.response.status = 302
    /\ HeadersGet(entry.response.headers, "Location") = Some(location)

\* The entry is a StaticFile whose identity variant is the file at path
ServesFile(entry, path) ==
    /\ entry.type = "StaticFile"
    /\ \E i \in 1..Len(entry.alternatives) :
          entry.alternatives[i][1] = "" /\ entry.alternatives[i][2] = path

\* C16: in an index built by scanning with an index file name configured,
\* a file whose URL ends with '/<index>' has exactly three entries: its full
\* URL and the directory URL without trailing slash are Redirects to the
\* directory URL with trailing slash (relative: './' and '<name>/'), and the
\* StaticFile is entered under the directory URL with trailing slash, not
\* under the literal URL; the index holds no other entries than those of
\* the scanned files.
C16_IndexFileEntries ==
    IndexBuiltWithIndexFile =>
        /\ DOMAIN files = UNION {EntriesOf(s[2]) : s \in Scanned}
        /\ \A s \in Scanned :
              IsIndexUrl(s[2]) =>
                  /\ Cardinality(EntriesOf(s[2])) = 3
                  /\ EntriesOf(s[2]) \subseteq DOMAIN files
                  /\ RedirectsTo(files[s[2]], "./")
                  /\ RedirectsTo(files[rstrip(DirectoryUrl(s[2]), "/")],
                                 BareLocation(rstrip(DirectoryUrl(s[2]), "/")))
                  /\ ServesFile(files[DirectoryUrl(s[2])], s[1])

\* Two roots were scanned and the index file of the second is entered under
\* its three URLs
C16_Witness ==
    /\ IndexBuiltWithIndexFile
    /\ Len(added) = 2
    /\ {"/my docs/index.html", "/my docs", "/my docs/"} \subseteq DOMAIN files
    /\ files["/my docs/"].type = "StaticFile"
    /\ files["/my docs"].type = "Redirect"
    /\ "/static/index.html" \in DOMAIN files

\* The paths a URL stands for under the registered roots
CandidatePathsOf(url) ==
    {reg[1] \o DropFirst(url, Len(reg[2])) : reg \in {r \in Registered : startswith(url, r[2])}}

IsRegularFile(path) == path \in DOMAIN fs /\ fs[path].kind = "file"

\* The URL d, given without trailing slash, is the URL of a directory under
\* a registered root that holds an index file
DirectoryWithIndex(d) ==
    \E path \in CandidatePathsOf(d \o "/") : IsRegularFile(path \o "index.html")

\* The URL is the URL of a directory under a registered root, no registered
\* root has a regular file for it and none has an index file in it
DirectoryWithoutIndex(d) ==
    /\ \E path \in CandidatePathsOf(d \o "/") :
          rstrip(path, "/") \in DOMAIN fs /\ fs[rstrip(path, "/")].kind = "dir"
    /\ ~DirectoryWithIndex(d)
    /\ ~\E path \in CandidatePathsOf(d) : IsRegularFile(path)

\* The URL a relative reference of the forms '<name>/...' and './...' names
\* when it is resolved against the URL of the request
ResolvedAgainst(base, reference) ==
    LET Within(parts) == join("/", SubSeq(parts, 1, Len(parts) - 1)) \o "/"
    IN  Within(split(base, "/"))
        \o (IF startswith(reference, "./") THEN DropFirst(reference, 2) ELSE reference)

\* The last call was answered 302 with a Location that resolves to `target`
\* followed by the query string of the request
RedirectedTo(target) ==
    /\ last.served /\ last.raised = ""
    /\ last.outcome.response.status = 302
    /\ last.body = ""
    /\ \E i \in 1..Len(last.outcome.response.headers) :
          /\ last.outcome.response.headers[i][1] = "Location"
          /\ ResolvedAgainst(quote(last.request.path), last.outcome.response.headers[i][2])
                = quote(target)
                  \o (IF QueryStringOfLast # "" THEN "?" \o QueryStringOfLast ELSE "")

\* The last call asked an entry point for a URL while an index file name is
\* configured
AskedWithIndexFile ==
    /\ EntryPointCalled /\ last.request.scope_type = "http"
    /\ index_file # None

\* C17: with an index file name configured, in both modes, a request for a
\* directory URL d without trailing slash whose index file exists is answered
\* 302 with a relative Location that resolves against the request URL to
\* d + '/' (the query string kept), a request for d + '/<index>' is answered
\* 302 with a Location resolving to d + '/', and a directory without an index
\* file does not resolve.
C17_DirectoryRedirects ==
    AskedWithIndexFile =>
        LET Url(url) ==
                /\ (~endswith(url, "/") /\ ~IsIndexUrl(url) /\ DirectoryWithIndex(url))
                      => RedirectedTo(url \o "/")
                /\ (IsIndexUrl(url) /\ DirectoryWithIndex(rstrip(DirectoryUrl(url), "/")))
                      => RedirectedTo(DirectoryUrl(url))
                /\ (~IsIndexUrl(url) /\ url # "" /\ DirectoryWithoutIndex(rstrip(url, "/")))
                      => (~last.served /\ last.resolved.type = "NoneType"
                           /\ last.app_calls = 1)
        IN  Url(last.request.path)

\* The last request asked, on live lookup, for a registered prefix without
\* its trailing slash: no prefix is a prefix of that URL, so find_file has no
\* candidate path for it
PrefixWithoutSlashLooked ==
    /\ autorefresh
    /\ \E reg \in Registered : last.request.path \o "/" = reg[2]

\* C17 for every request but the live lookup of a prefix without its
\* trailing slash
C17_DirectoryRedirectsBelowPrefix ==
    ~PrefixWithoutSlashLooked => C17_DirectoryRedirects

\* The index built by scanning redirected the prefix without its trailing
\* slash to the index file of the root
C17_RootRedirectedWhenScanned ==
    /\ AskedWithIndexFile /\ ~autorefresh
    /\ last.request.path = "/static"
    /\ DirectoryWithIndex("/static")
    /\ RedirectedTo("/static/")

\* The last call asked an entry point for a URL that is not canonical
NonCanonicalAsked ==
    /\ EntryPointCalled /\ last.request.scope_type = "http"
    /\ ~url_is_canonical(decode_path_info(last.request.path))

\* The last call resolved to nothing and handed the request on
NothingResolved ==
    /\ ~last.served
    /\ last.resolved.type = "NoneType"
    /\ last.app_calls = 1

\* C18: in both modes a URL that contains a backslash, a '..' segment or
\* slashes that are not normalised - every URL for which url_is_canonical is
\* false - resolves to no responder, whatever files exist and whatever roots
\* and prefixes were registered.
C18_NonCanonicalNeverResolves == NonCanonicalAsked => NothingResolved

\* Every registered prefix is a canonical URL
PrefixesCanonical == \A reg \in Registered : url_is_canonical(reg[2])

\* C18 on live lookup, and on an index built from canonical prefixes
C18_NonCanonicalNeverResolvesUnderCanonicalPrefixes ==
    (autorefresh \/ PrefixesCanonical) => C18_NonCanonicalNeverResolves

\* A URL with '..' that names an existing file below the root was not
\* resolved by live lookup
C18_TraversalRefused ==
    /\ NonCanonicalAsked /\ autorefresh /\ NothingResolved
    /\ last.request.path = "/static/../static/app.js"

\* What the entry point returns when the request of the last call is made
\* once more in the present state
RepeatOfLast ==
    IF last.op = "wsgi"
    THEN ServeStatic_call(fs, last.request.request_headers)
    ELSE ServeStaticASGI_call(fs, Scope(last.request.scope_type, last.request.path,
                                        last.request.method, last.request.request_headers))

\* The index built by scanning answers the request of the last call, made
\* again, as it answered it: the same status, headers in the same order,
\* body, and file opened
RepeatAnsweredAlike == (EntryPointCalled /\ ~autorefresh) => RepeatOfLast = last

\* A request to the index built by scanning changes neither the index, nor
\* a responder in it, nor the list of directories
RequestKeepsIndex ==
    (~autorefresh /\ last' # NoCall) => (files' = files /\ directories' = directories)

IsSpecialFile(path) == path \in DOMAIN fs /\ fs[path].kind = "other"

\* The tree without its devices, sockets and FIFOs
WithoutSpecialFiles == [path \in {p \in DOMAIN fs : fs[p].kind # "other"} |-> fs[path]]

\* A request was resolved on the filesystem
LiveResolution ==
    EntryPointCalled /\ autorefresh /\ last.request.scope_type = "http"

\* A candidate path of the request is a device, socket or FIFO
SpecialFileAsked ==
    /\ LiveResolution
    /\ url_is_canonical(decode_path_info(last.request.path))
    /\ \E path \in CandidatePathsOf(decode_path_info(last.request.path)) :
          IsSpecialFile(path)

\* The request was answered as find_file answers on the given tree, and no
\* exception left the call
ResolvedAsOn(tree) ==
    /\ last.raised = ""
    /\ last.resolved = find_file(tree, directories, decode_path_info(last.request.path))
    /\ last.resolved.type = "NoneType" => ~last.served /\ last.app_calls = 1

\* C24: a path that exists but is neither a regular file nor a directory is
\* treated as missing during resolution: find_file goes on to the next
\* candidate directory and returns none when no other matches, the request
\* falls through to the wrapped application, and no exception reaches the
\* transport.
C24_SpecialFileTreatedAsMissing == SpecialFileAsked => ResolvedAsOn(WithoutSpecialFiles)

\* Missing files and directories do fall through: without a special file
\* among the candidates no exception leaves the call
C24_MissingFallsThrough ==
    (LiveResolution /\ ~SpecialFileAsked) => ResolvedAsOn(fs)

\* The exception of the special file left the call
C24_SpecialFileRaised ==
    SpecialFileAsked /\ last.raised = "NotARegularFileError" /\ last.app_calls = 0

\* ------------------------------------------------------------------------
\* Properties of the responders (specification SpecResponder)
\* ------------------------------------------------------------------------

\* The last step called a response method of a StaticFile
StaticFileAsked ==
    /\ last.op \in {"get_response", "aget_response"}
    /\ last.resolved.type = "StaticFile"

\* C3: for every method other than GET and HEAD, get_response and
\* aget_response of a StaticFile return the 405 response whose only header is
\* Allow: GET, HEAD and which has no body, whatever the request headers are,
\* and no file is opened.
C3_OtherMethodsNotAllowed ==
    (StaticFileAsked /\ last.request.method \notin {"GET", "HEAD"}) =>
        /\ last.outcome.response.type = "Response"
        /\ last.outcome.response.status = 405
        /\ last.outcome.response.headers = << <<"Allow", "GET, HEAD">> >>
        /\ last.outcome.response.file.kind = "none"
        /\ last.outcome.opened = None
        /\ last.raised = ""

\* A POST whose If-None-Match equals the ETag and which asks for a range was
\* answered 405
C3_Witness ==
    /\ StaticFileAsked
    /\ last.request.method = "POST"
    /\ "HTTP_RANGE" \in DOMAIN last.request.request_headers
    /\ "HTTP_IF_NONE_MATCH" \in DOMAIN last.request.request_headers
    /\ Some(last.request.request_headers["HTTP_IF_NONE_MATCH"]) = last.resolved.etag
    /\ last.outcome.response.status = 405

\* The last step asked a StaticFile with GET or HEAD
ReadAsked == StaticFileAsked /\ last.request.method \in {"GET", "HEAD"}

\* The request header of the last call is present
Sent(key) == key \in DOMAIN last.request.request_headers

\* The status of the response returned, 0 when the call raised
LastStatus ==
    IF last.outcome.response.type = "Response" THEN last.outcome.response.status ELSE 0

\* The file the StaticFile of SpecResponder was built from
ServedPath == "/srv/a/app.js"

\* The time of the file's Last-Modified header in seconds: st_mtime counts
\* half seconds and the header has whole seconds; -1 when st_mtime is 0 and
\* the header is left out
LastModifiedSeconds ==
    IF fs[ServedPath].mtime = 0 THEN -1 ELSE fs[ServedPath].mtime \div 2

\* The time an If-Modified-Since value of the requests names in seconds, -1
\* when it is no date
SecondsOf(date) ==
    CASE date = "@0:59 GMT" -> 59
      [] date = "@1:0 GMT"  -> 60
      [] date = "@1:1 GMT"  -> 61
      [] OTHER              -> -1

RequestedSeconds == SecondsOf(last.request.request_headers["HTTP_IF_MODIFIED_SINCE"])

\* C5: with If-None-Match in the request the answer is 304 exactly when the
\* header's value equals the precomputed ETag string; If-Modified-Since is
\* not consulted, so a value that does not match gets a full response even
\* when If-Modified-Since is later than Last-Modified.
C5_IfNoneMatchDecides ==
    (ReadAsked /\ Sent("HTTP_IF_NONE_MATCH")) =>
        /\ LastStatus # 0
        /\ (LastStatus = 304) <=>
              (last.resolved.etag = Some(last.request.request_headers["HTTP_IF_NONE_MATCH"]))

\* An If-None-Match that does not match, sent with an If-Modified-Since later
\* than Last-Modified, got the full response
C5_Witness ==
    /\ ReadAsked /\ Sent("HTTP_IF_NONE_MATCH") /\ Sent("HTTP_IF_MODIFIED_SINCE")
    /\ last.resolved.etag # None
    /\ last.resolved.etag # Some(last.request.request_headers["HTTP_IF_NONE_MATCH"])
    /\ LastModifiedSeconds >= 0
    /\ RequestedSeconds > LastModifiedSeconds
    /\ LastStatus = 200

\* C6: without If-None-Match, an If-Modified-Since that parses to a time at
\* or after the file's Last-Modified is answered 304; one that does not
\* parse, or a file without Last-Modified, is never answered 304.
C6_IfModifiedSinceAtOrAfter ==
    (ReadAsked /\ ~Sent("HTTP_IF_NONE_MATCH") /\ Sent("HTTP_IF_MODIFIED_SINCE")) =>
        /\ (LastModifiedSeconds >= 0 /\ RequestedSeconds >= LastModifiedSeconds)
              => LastStatus = 304
        /\ (LastModifiedSeconds < 0 \/ RequestedSeconds < 0) => LastStatus \notin {0, 304}

\* An If-Modified-Since equal to Last-Modified was answered 304
C6_Witness ==
    /\ ReadAsked /\ ~Sent("HTTP_IF_NONE_MATCH") /\ Sent("HTTP_IF_MODIFIED_SINCE")
    /\ LastModifiedSeconds = 60
    /\ RequestedSeconds = 60
    /\ LastStatus = 304

\* C7 as stated: without If-None-Match, an If-Modified-Since equal to or
\* earlier than the file's Last-Modified is answered 304.
C7_EqualOrEarlierNotModified ==
    (/\ ReadAsked /\ ~Sent("HTTP_IF_NONE_MATCH") /\ Sent("HTTP_IF_MODIFIED_SINCE")
     /\ LastModifiedSeconds >= 0 /\ RequestedSeconds >= 0
     /\ RequestedSeconds <= LastModifiedSeconds)
        => LastStatus = 304

\* C7, amended: without If-None-Match, an If-Modified-Since equal to or later
\* than the file's Last-Modified is answered 304, and an earlier one is not:
\* it gets the full response.
C7_EqualOrLaterNotModified ==
    (/\ ReadAsked /\ ~Sent("HTTP_IF_NONE_MATCH") /\ Sent("HTTP_IF_MODIFIED_SINCE")
     /\ LastModifiedSeconds >= 0 /\ RequestedSeconds >= 0)
        => /\ LastStatus # 0
           /\ (LastStatus = 304) <=> (RequestedSeconds >= LastModifiedSeconds)

\* An If-Modified-Since one second before Last-Modified got the full response
C7_Witness ==
    /\ ReadAsked /\ ~Sent("HTTP_IF_NONE_MATCH") /\ Sent("HTTP_IF_MODIFIED_SINCE")
    /\ LastModifiedSeconds = 60
    /\ RequestedSeconds = 59
    /\ LastStatus \in {200, 206}

\* The headers a full response with the uncompressed file carries
IdentityHeaders ==
    last.resolved.alternatives[
        CHOOSE i \in 1..Len(last.resolved.alternatives) :
            last.resolved.alternatives[i][1] = ""][3]

PairSet(headers) == {headers[i] : i \in 1..Len(headers)}

\* C8: every 304 of a StaticFile is the precomputed not-modified response:
\* it has no body, no file is opened for it, and its headers are exactly the
\* file's headers named Cache-Control, Content-Location, Date, ETag, Expires
\* or Vary, so never Content-Type, Content-Length, Content-Encoding or
\* Last-Modified.
C8_NotModifiedHeaders ==
    (StaticFileAsked /\ LastStatus = 304) =>
        /\ last.outcome.response = last.resolved.not_modified_response
        /\ last.outcome.response.file.kind = "none"
        /\ last.outcome.opened = None
        /\ PairSet(last.outcome.response.headers) =
              {pair \in PairSet(IdentityHeaders) :
                  pair[1] \in {"Cache-Control", "Content-Location", "Date", "ETag",
                               "Expires", "Vary"}}
        /\ \A i, j \in 1..Len(last.outcome.response.headers) :
              (last.outcome.response.headers[i][1] = last.outcome.response.headers[j][1])
                 => i = j
        /\ HeaderNames(last.outcome.response.headers) \cap
              {"Content-Type", "Content-Length", "Content-Encoding", "Last-Modified"} = {}

\* A 304 carried Cache-Control, ETag and Vary of a file that also has a
\* Content-Type and a Last-Modified
C8_Witness ==
    /\ StaticFileAsked /\ LastStatus = 304
    /\ HeaderNames(last.outcome.response.headers) = {"Cache-Control", "ETag", "Vary"}
    /\ {"Content-Type", "Last-Modified", "Content-Length"} \subseteq HeaderNames(IdentityHeaders)

\* The variants of the served file that exist: <<encoding, path>>
Variants ==
    {v \in { <<"", ServedPath>>, <<"gzip", ServedPath \o ".gz">>, <<"br", ServedPath \o ".br">> } :
        v[2] \in DOMAIN fs}

SizeOf(v) == Len(fs[v[2]].content)

\* The encodings whose token is a whole word of an Accept-Encoding value of
\* the requests
TokensIn(accept_encoding) ==
    CASE accept_encoding = "gzip"       -> {"gzip"}
      [] accept_encoding = "br"         -> {"br"}
      [] accept_encoding = "gzip, br"   -> {"gzip", "br"}
      [] accept_encoding = "x-gzip;q=0" -> {"gzip"}
      [] OTHER                          -> {}

\* The variants the last request accepts
Acceptable ==
    {v \in Variants :
        v[1] = "" \/ v[1] \in TokensIn(DictGet(last.request.request_headers,
                                                "HTTP_ACCEPT_ENCODING", ""))}

\* The response of the last call is the variant v
Selected(v) ==
    /\ HeadersGet(last.outcome.response.headers, "Content-Encoding")
          = (IF v[1] = "" THEN None ELSE Some(v[1]))
    /\ LastStatus = 200 =>
          HeadersGet(last.outcome.response.headers, "Content-Length") = Some(str(SizeOf(v)))
    /\ last.request.method = "GET" => last.outcome.response.file.path = v[2]

\* C9: the variant returned is one of smallest size among the acceptable
\* ones - the identity variant, and an encoded variant when its token is a
\* whole word of Accept-Encoding; an absent, empty or "*" Accept-Encoding
\* selects the identity variant; Content-Encoding is present exactly for an
\* encoded variant and Content-Length is the size of the variant returned.
C9_SmallestAcceptable ==
    (ReadAsked /\ LastStatus \in {200, 206}) =>
        \E v \in Acceptable :
            /\ \A w \in Acceptable : SizeOf(v) <= SizeOf(w)
            /\ Selected(v)

\* A request accepting gzip only got the gzip variant although the brotli
\* variant is smaller
C9_Witness ==
    /\ ReadAsked /\ LastStatus = 200
    /\ DictGet(last.request.request_headers, "HTTP_ACCEPT_ENCODING", "") = "x-gzip;q=0"
    /\ Cardinality(Variants) = 3
    /\ SizeOf(<<"br", ServedPath \o ".br">>) < SizeOf(<<"gzip", ServedPath \o ".gz">>)
    /\ Selected(<<"gzip", ServedPath \o ".gz">>)
    /\ last.request.method = "GET"

\* The served file has a gzip and a brotli variant and the last call
\* returned a full or partial response
BothVariantsAnswered ==
    /\ ReadAsked /\ LastStatus \in {200, 206}
    /\ Cardinality(Variants) = 3

AcceptsGzipAndBr ==
    DictGet(last.request.request_headers, "HTTP_ACCEPT_ENCODING", "absent") = "gzip, br"

\* C10 as stated: a file with both variants is returned as brotli, with
\* Vary: Accept-Encoding, to Accept-Encoding: gzip, br, and as identity to a
\* request without Accept-Encoding.
C10_BrotliPreferred ==
    BothVariantsAnswered =>
        /\ AcceptsGzipAndBr =>
              /\ Selected(<<"br", ServedPath \o ".br">>)
              /\ HeadersGet(last.outcome.response.headers, "Vary") = Some("Accept-Encoding")
        /\ ~Sent("HTTP_ACCEPT_ENCODING") => Selected(<<"", ServedPath>>)

\* C10, amended: to Accept-Encoding: gzip, br a file with both variants is
\* returned as the smallest of the three files, the order identity, gzip,
\* br deciding among equals - so as brotli exactly when the brotli file is
\* smaller than both others - with Vary: Accept-Encoding; a request without
\* Accept-Encoding gets the identity variant.
C10_SmallestPreferred ==
    BothVariantsAnswered =>
        /\ AcceptsGzipAndBr =>
              /\ Selected(<<"br", ServedPath \o ".br">>) <=>
                    /\ SizeOf(<<"br", ServedPath \o ".br">>) < SizeOf(<<"gzip", ServedPath \o ".gz">>)
                    /\ SizeOf(<<"br", ServedPath \o ".br">>) < SizeOf(<<"", ServedPath>>)
              /\ Selected(<<"gzip", ServedPath \o ".gz">>) <=>
                    /\ SizeOf(<<"gzip", ServedPath \o ".gz">>) <= SizeOf(<<"br", ServedPath \o ".br">>)
                    /\ SizeOf(<<"gzip", ServedPath \o ".gz">>) < SizeOf(<<"", ServedPath>>)
              /\ Selected(<<"", ServedPath>>) <=>
                    /\ SizeOf(<<"", ServedPath>>) <= SizeOf(<<"gzip", ServedPath \o ".gz">>)
                    /\ SizeOf(<<"", ServedPath>>) <= SizeOf(<<"br", ServedPath \o ".br">>)
              /\ HeadersGet(last.outcome.response.headers, "Vary") = Some("Accept-Encoding")
        /\ ~Sent("HTTP_ACCEPT_ENCODING") => Selected(<<"", ServedPath>>)

\* Accept-Encoding: gzip, br got the gzip variant of a file whose brotli
\* variant has the same size
C10_Witness ==
    /\ BothVariantsAnswered /\ AcceptsGzipAndBr
    /\ SizeOf(<<"br", ServedPath \o ".br">>) = SizeOf(<<"gzip", ServedPath \o ".gz">>)
    /\ Selected(<<"gzip", ServedPath \o ".gz">>)
    /\ last.request.method = "GET"

\* The last step asked a StaticFile with HEAD
HeadAsked == StaticFileAsked /\ last.request.method = "HEAD"

\* What the same response method returns to a GET with the request headers
\* of the last call
GetOutcomeOfLast ==
    IF last.op = "get_response"
    THEN get_response(fs, last.resolved, "GET", last.request.request_headers)
    ELSE aget_response(last.resolved, "GET", last.request.request_headers)

\* C11: whatever the request headers are, a HEAD request to a StaticFile
\* opens no file and returns no body, and its status and headers are those
\* of a GET with the same request headers; without a Range header a full
\* (200) response carries the size of the selected variant as Content-Length.
C11_HeadLikeGet ==
    HeadAsked =>
        LET SameAs(get) ==
                /\ get.response.type = "Response"
                /\ last.outcome.response.status = get.response.status
                /\ last.outcome.response.headers = get.response.headers
        IN  /\ last.raised = ""
            /\ last.outcome.opened = None
            /\ last.outcome.response.file.kind = "none"
            /\ SameAs(GetOutcomeOfLast)
            /\ ~Sent("HTTP_RANGE") /\ LastStatus # 304 =>
                  /\ LastStatus = 200
                  /\ \E v \in Acceptable : Selected(v)

\* A HEAD asking for the first two bytes of the gzip variant was answered
\* 206 without a file
C11_Witness ==
    /\ HeadAsked /\ LastStatus = 206
    /\ Sent("HTTP_RANGE") /\ Sent("HTTP_ACCEPT_ENCODING")
    /\ HeadersGet(last.outcome.response.headers, "Content-Encoding") = Some("gzip")
    /\ HeadersGet(last.outcome.response.headers, "Content-Length") = Some("2")
    /\ last.outcome.response.file.kind = "none"

\* The bytes range a Range value of the requests names in a file of `size`
\* bytes: <<start, end>> after clamping, <<>> when the value is no single
\* bytes range
RangeNamed(range_header, size) ==
    CASE range_header = "bytes=0-1"   -> <<0, Min(1, size - 1)>>
      [] range_header = "bytes=9-"    -> <<9, size - 1>>
      [] range_header = "bytes=3-"    -> <<3, size - 1>>
      [] range_header = "bytes=-2"    -> <<Max(size - 2, 0), size - 1>>
      [] range_header = "bytes=-9"    -> <<Max(size - 9, 0), size - 1>>
      [] range_header = "bytes=2-99"  -> <<2, Min(99, size - 1)>>
      [] range_header = "bytes= 1-3 " -> <<1, Min(3, size - 1)>>
      [] range_header = "bytes=3-3"   -> <<3, Min(3, size - 1)>>
      [] range_header = "bytes=5-2"   -> <<5, Min(2, size - 1)>>
      [] OTHER                        -> <<>>

\* The last step asked a StaticFile with GET and a Range header and was not
\* answered Not Modified
RangeAsked ==
    /\ StaticFileAsked /\ last.request.method = "GET"
    /\ Sent("HTTP_RANGE") /\ LastStatus # 304

\* The variant the last request selects: a smallest acceptable one that the
\* response names, when the response names one
SelectedVariants ==
    {v \in Acceptable : \A w \in Acceptable : SizeOf(v) <= SizeOf(w)}

\* The request headers of the last call without Range
WithoutRange ==
    [key \in DOMAIN last.request.request_headers \ {"HTTP_RANGE"} |->
        last.request.request_headers[key]]

\* What the same response method returns to the last request without Range
FullOutcomeOfLast ==
    IF last.op = "get_response"
    THEN get_response(fs, last.resolved, last.request.method, WithoutRange)
    ELSE aget_response(last.resolved, last.request.method, WithoutRange)

\* C12: a GET whose Range parses to one bytes range with start < end after
\* clamping is answered 206 with Content-Range 'bytes start-end/size', with
\* Content-Length end-start+1 in place of the full length and the other
\* headers of the selected variant kept, 0 <= start < end <= size-1, and the
\* body is bytes start..end (inclusive) of the selected variant.
C12_PartialContent ==
    RangeAsked =>
        \E v \in SelectedVariants :
            LET Partial(start, end, size, full) ==
                    /\ 0 <= start /\ end <= size - 1
                    /\ LastStatus = 206
                    /\ last.raised = ""
                    /\ last.outcome.response.headers =
                          WithoutContentLength(full.response.headers)
                          \o << <<"Content-Range", "bytes " \o str(start) \o "-"
                                                     \o str(end) \o "/" \o str(size)>>,
                                <<"Content-Length", str(end - start + 1)>> >>
                    /\ last.outcome.response.file.path = v[2]
                    /\ ReadAll(fs, last.outcome.response.file)
                          = SubSeq(fs[v[2]].content, start + 1, end + 1)
                Named(range, full) ==
                    (range # <<>> /\ range[1] < range[2]) =>
                        Partial(range[1], range[2], SizeOf(v), full)
            IN  Named(RangeNamed(last.request.request_headers["HTTP_RANGE"], SizeOf(v)),
                      FullOutcomeOfLast)

\* The last two bytes of the brotli variant were asked for and returned
C12_Witness ==
    /\ RangeAsked /\ LastStatus = 206
    /\ last.request.request_headers["HTTP_RANGE"] = "bytes=-2"
    /\ last.outcome.response.file.path = ServedPath \o ".br"
    /\ fs[ServedPath \o ".br"].content = "BR12"
    /\ ReadAll(fs, last.outcome.response.file) = "12"
    /\ HeadersGet(last.outcome.response.headers, "Content-Range") = Some("bytes 2-3/4")

\* The last step asked a StaticFile with GET or HEAD and a Range header and
\* was not answered Not Modified
RangeRead == ReadAsked /\ Sent("HTTP_RANGE") /\ LastStatus # 304

\* C13: a range that parses and has start >= end after end is clamped to
\* size-1 - so every range starting at or beyond the size of the file - is
\* answered 416 with Content-Range: bytes */<size> as its only header and
\* without a body.
C13_RangeNotSatisfiable ==
    RangeRead =>
        \A v \in SelectedVariants :
            LET Named(range) ==
                    (range # <<>> /\ range[1] >= range[2]) =>
                        /\ LastStatus = 416
                        /\ last.raised = ""
                        /\ last.outcome.response.headers =
                              << <<"Content-Range", "bytes */" \o str(SizeOf(v))>> >>
                        /\ last.outcome.response.file.kind = "none"
            IN  Named(RangeNamed(last.request.request_headers["HTTP_RANGE"], SizeOf(v)))

\* A range starting beyond the end of the identity variant was answered 416
\* and the file opened for it was closed
C13_Witness ==
    /\ RangeRead /\ LastStatus = 416
    /\ last.op = "get_response" /\ last.request.method = "GET"
    /\ last.request.request_headers["HTTP_RANGE"] = "bytes=9-"
    /\ last.outcome.opened = Some(ServedPath) /\ last.outcome.closed
    /\ last.outcome.response.headers = << <<"Content-Range", "bytes */6">> >>

\* The last step asked a StaticFile with GET or HEAD and a Range value that
\* is no single bytes range
UninterpretableRangeSent ==
    /\ ReadAsked /\ Sent("HTTP_RANGE")
    /\ RangeNamed(last.request.request_headers["HTTP_RANGE"], 1) = <<>>

\* C14: a Range header that cannot be interpreted (another unit than bytes,
\* no '-', bounds that are no integers, several ranges) is ignored: nothing
\* is raised and the response - status, headers, file - is the one given to
\* the same request without Range, a 200 unless that request is answered
\* Not Modified.
C14_UninterpretableRangeIgnored ==
    UninterpretableRangeSent =>
        LET SameAs(full) ==
                /\ last.outcome.response = full.response
                /\ last.outcome.opened = full.opened
        IN  /\ last.raised = ""
            /\ LastStatus \in {200, 304}
            /\ (~Sent("HTTP_IF_NONE_MATCH") /\ ~Sent("HTTP_IF_MODIFIED_SINCE"))
                  => LastStatus = 200
            /\ SameAs(FullOutcomeOfLast)

\* A GET asking for two ranges got the whole gzip variant
C14_Witness ==
    /\ UninterpretableRangeSent /\ LastStatus = 200
    /\ last.request.method = "GET"
    /\ last.request.request_headers["HTTP_RANGE"] = "bytes=0-1,3-4"
    /\ last.outcome.response.file = OpenFile(ServedPath \o ".gz")
    /\ HeadersGet(last.outcome.response.headers, "Content-Length") = Some("4")
    /\ ~HeadersHas(last.outcome.response.headers, "Content-Range")

\* ------------------------------------------------------------------------
\* Properties of the order of registration (specification SpecPrecedence)
\* ------------------------------------------------------------------------

\* The file the i-th add_files call provides for a URL, "" when its prefix
\* is no prefix of the URL
ProvidedBy(i, url) ==
    LET At(reg) == IF startswith(url, reg[2]) THEN reg[1] \o DropFirst(url, Len(reg[2])) ELSE ""
    IN  At(RegisteredAs(added[i]))

\* The add_files calls whose directory has a regular file for the URL
Providers(url) == {i \in 1..Len(added) : IsRegularFile(ProvidedBy(i, url))}

\* The last call asked an entry point for a URL that two registered
\* directories have different files for
SharedUrlAsked ==
    /\ EntryPointCalled /\ last.request.scope_type = "http"
    /\ ~IsIndexUrl(last.request.path)
    /\ \E i, j \in Providers(last.request.path) :
          ProvidedBy(i, last.request.path) # ProvidedBy(j, last.request.path)

\* The last call served the file at path, and a GET without Accept-Encoding
\* got its contents
ServedFrom(path) ==
    /\ last.served
    /\ ServesFile(last.resolved, path)
    /\ (last.request.method = "GET" /\ ~Sent("HTTP_ACCEPT_ENCODING"))
          => last.body = fs[path].content

\* C19: after any sequence of add_files calls, a URL that two registered
\* directories have a file for is served from the directory added most
\* recently, on live lookup and by the index built by scanning.
C19_LatestDirectoryServed ==
    SharedUrlAsked =>
        LET Latest(providers) == CHOOSE i \in providers : \A j \in providers : j <= i
        IN  ServedFrom(ProvidedBy(Latest(Providers(last.request.path)), last.request.path))

\* No directory was registered twice under the same prefix
NothingReAdded ==
    \A i, j \in 1..Len(added) : i # j => RegisteredAs(added[i]) # RegisteredAs(added[j])

\* C19 for the index built by scanning, and for live lookup while no
\* directory was registered a second time
C19_LatestDirectoryServedUnlessReAdded ==
    (~autorefresh \/ NothingReAdded) => C19_LatestDirectoryServed

\* The index built by scanning served the file of the root that was scanned
\* again after the other one
C19_ReScannedServed ==
    /\ SharedUrlAsked /\ ~autorefresh
    /\ Len(added) = 3
    /\ RegisteredAs(added[1]) = RegisteredAs(added[3])
    /\ RegisteredAs(added[2]) # RegisteredAs(added[1])
    /\ last.request.method = "GET" /\ ~Sent("HTTP_ACCEPT_ENCODING")
    /\ last.body = "abcdef"

\* ------------------------------------------------------------------------
\* Properties of the streamed response (specification SpecStream)
\* ------------------------------------------------------------------------

Streaming == run.pc # "idle"

\* The body messages sent so far
FramesSent == IF run.sent = <<>> THEN <<>> ELSE Tail(run.sent)

\* A message that ends the stream: no byte, and more_body false or absent
IsLastFrame(m) ==
    /\ m.type = "http.response.body"
    /\ m.body = ""
    /\ "more_body" \in DOMAIN m => ~m.more_body

\* A message that carries bytes and announces more
IsChunkFrame(m) ==
    /\ m.type = "http.response.body"
    /\ m.body # ""
    /\ Len(m.body) <= get_block_size
    /\ "more_body" \in DOMAIN m /\ m.more_body

\* The bytes the response stands for: those of its file or slice, none
\* without a file
BytesOfResponse ==
    IF run.response.file.kind = "none" THEN "" ELSE ReadAll(fs, run.response.file)

BodyLess ==
    \/ run.request.method = "HEAD"
    \/ run.response.status \in {302, 304, 405, 416}

\* What holds of the messages at every moment of a call: the start message
\* comes first and once, every body message but the last sent carries bytes
\* and announces more, nothing follows a message that ends the stream, and
\* the bytes sent are the first bytes of the response in order
StreamInOrder ==
    /\ run.sent # <<>> => run.sent[1].type = "http.response.start"
    /\ \A i \in 1..Len(FramesSent) :
          /\ IsChunkFrame(FramesSent[i]) \/ IsLastFrame(FramesSent[i])
          /\ IsLastFrame(FramesSent[i]) =>
                i = Len(FramesSent) /\ run.pc \in {"exit", "returned", "raised"}
    /\ startswith(BytesOfResponse, BodyOf(FramesSent))

\* What holds when the call returned: one start message, all the bytes, one
\* last message, and two messages in all for a response without a body
StreamComplete ==
    /\ Len(run.sent) >= 2
    /\ IsLastFrame(run.sent[Len(run.sent)])
    /\ BodyOf(FramesSent) = BytesOfResponse
    /\ BodyLess => run.response.file.kind = "none"
    /\ run.response.file.kind = "none" => Len(run.sent) = 2

\* C21: FileServerASGI sends one http.response.start before any
\* http.response.body; the body messages carry the bytes of the file in file
\* order, each but the last non-empty, of at most block_size bytes and with
\* more_body true; a call that returns has sent exactly one last message with
\* an empty body and more_body false or absent, so a response without a body
\* (HEAD, 304, 405, 416, redirect) makes exactly two messages.
C21_StreamOrdered ==
    Streaming /\ "error" \in DOMAIN run =>
        /\ run.error = "" \/ run.pc \in {"exit", "raised"}
        /\ run.response.type = "Response" => StreamInOrder
        /\ run.pc = "returned" => StreamComplete

\* A file of more than one block was streamed to its end
C21_Witness ==
    /\ run.pc = "returned"
    /\ run.response.status = 200
    /\ Len(run.sent) >= 4
    /\ IsChunkFrame(run.sent[2]) /\ IsChunkFrame(run.sent[3])
    /\ IsLastFrame(run.sent[Len(run.sent)])

\* The call is over: it returned or an exception left it
CallOver == Streaming /\ run.pc \in {"returned", "raised"}

\* The file object of the response is not open
FileReleased == run.handle.file_obj # "open"

\* A step of a call in which a read or a send has failed issues no read
NoReadAfterFailure ==
    (Streaming /\ run'.pc # "idle" /\ run.error # "") => run'.reads = run.reads

\* C22: once FileServerASGI streams a body, the file is closed by the time
\* __call__ returns or raises -- when the file is exhausted, when a read
\* fails, and when send raises because the connection was dropped -- and no
\* read is issued on the file after such a failure.
C22_FileClosedOnEveryExit ==
    /\ [](CallOver => FileReleased)
    /\ [][NoReadAfterFailure]_vars

\* The connection was dropped after a chunk was sent, and the file that had
\* been read was closed
C22_Witness ==
    /\ CallOver
    /\ run.error = SendError
    /\ run.handle.file_obj = "closed"
    /\ run.reads >= 2
    /\ Len(run.sent) >= 2

\* The calls a request has made on the filesystem so far: those of the
\* resolution, then those on the file of the body
FilesystemCalls == run.resolution \o run.handle.log

\* The functions called on the file of the body, in order
RECURSIVE FunctionsOf(_)
FunctionsOf(log) ==
    IF log = <<>> THEN <<>> ELSE <<Head(log).func>> \o FunctionsOf(Tail(log))

\* The call ran on a worker thread and the coroutine was suspended for it
OffTheEventLoop(call) == call.thread # EventLoopThread /\ call.awaited

\* Whatever happened to the file of the body is in its log: it was opened
\* first, bytes sent were read, and a closed file was closed last
FileCallsLogged ==
    /\ run.handle.file_obj # "none" =>
          run.handle.log # <<>> /\ run.handle.log[1].func = "open"
    /\ BodyOf(FramesSent) # "" =>
          \E i \in 1..Len(run.handle.log) : run.handle.log[i].func = "read"
    /\ (run.handle.seeked /\ run.handle.file_obj # "none") =>
          Len(run.handle.log) >= 2 /\ run.handle.log[2].func = "seek"
    /\ run.handle.file_obj = "closed" =>
          run.handle.log[Len(run.handle.log)].func = "close"

\* C28: on the ASGI path every filesystem call of a request runs on a worker
\* thread, never on the thread of the event loop: live resolution (find_file
\* with its stat calls) goes through asyncio.to_thread, and open, seek, read
\* and close of the body file go through the executor of the AsyncFile, each
\* at an await.
C28_FilesystemOffTheEventLoop ==
    Streaming =>
        /\ \A i \in 1..Len(FilesystemCalls) : OffTheEventLoop(FilesystemCalls[i])
        /\ ~autorefresh => run.resolution = <<>>
        /\ run.resolution # <<>> =>
              run.resolution = << [func |-> "find_file", thread |-> "asyncio.to_thread",
                                   awaited |-> TRUE] >>
        /\ run.response.type = "Response" => FileCallsLogged

\* A slice of a file resolved on the filesystem was streamed to its end:
\* find_file, open, seek, reads and close all ran off the event loop
C28_Witness ==
    /\ Streaming /\ run.pc = "returned"
    /\ Len(run.resolution) = 1
    /\ FunctionsOf(run.handle.log) = <<"open", "seek", "read", "close">>
    /\ \A i \in 1..Len(FilesystemCalls) : OffTheEventLoop(FilesystemCalls[i])

\* ------------------------------------------------------------------------
\* Properties of the file of a WSGI response (specification SpecWsgiFile)
\* ------------------------------------------------------------------------

\* FileServerWSGI.__call__ returned or an exception left it
WsgiCallOver == run.pc \in {"returned", "raised"} /\ "holder" \in DOMAIN run

\* The file get_response opened is with the file wrapper or is closed
FileHandedOverOrClosed ==
    run.file_obj = "open" => run.holder = "file_wrapper"

StartResponseRaised == run.error = StartResponseError

\* C23: in the WSGI adapter a file opened for a response is, on every way
\* out of the call, handed to the server's file wrapper or closed by
\* ServeStatic itself, also when start_response raises after get_response
\* opened the file.
C23_FileHandedOverOrClosed == WsgiCallOver => FileHandedOverOrClosed

\* The same of the calls start_response does not raise in
C23_FileHandedOverOrClosedUnlessStartRaised ==
    WsgiCallOver /\ ~StartResponseRaised => FileHandedOverOrClosed

\* A file was opened and went to the file wrapper; a file was opened for a
\* range that cannot be satisfied and closed again
C23_HandedOver ==
    WsgiCallOver /\ run.file_obj = "open" /\ run.holder = "file_wrapper"

C23_ClosedAgain ==
    WsgiCallOver /\ run.file_obj = "closed" /\ run.response.status = 416

\* ------------------------------------------------------------------------
\* Properties of requests between which files change (specification SpecLive)
\* ------------------------------------------------------------------------

\* The registered directories, in the order of self.directories, that have
\* a regular file for the URL now
DirectoriesHaving(url) ==
    {i \in 1..Len(directories) :
        /\ startswith(url, directories[i][2])
        /\ IsRegularFile(directories[i][1] \o DropFirst(url, Len(directories[i][2])))}

\* The file the URL stands for now: that of the first such directory
FileNow(url) ==
    LET First(i) == directories[i][1] \o DropFirst(url, Len(directories[i][2]))
    IN  IF DirectoriesHaving(url) = {} THEN None
        ELSE Some(First(CHOOSE i \in DirectoriesHaving(url) :
                            \A j \in DirectoriesHaving(url) : i <= j))

HeaderOfLast(name) == HeadersGet(last.outcome.response.headers, name)

\* The validator of the file as it is now
ETagNow(path) ==
    "\"" \o hex(fs[path].mtime \div 2) \o "-" \o hex(Len(fs[path].content)) \o "\""

\* The last request was answered from the file as it is now
AnsweredFromFileNow(path) ==
    /\ last.served /\ last.raised = "" /\ last.app_calls = 0
    /\ last.resolved.type = "StaticFile"
    /\ last.request.method \notin {"GET", "HEAD"} => LastStatus = 405
    /\ last.request.method \in {"GET", "HEAD"} =>
          /\ LastStatus = (IF /\ Sent("HTTP_IF_NONE_MATCH")
                              /\ last.request.request_headers["HTTP_IF_NONE_MATCH"]
                                    = ETagNow(path)
                           THEN 304 ELSE 200)
          /\ HeaderOfLast("ETag") = Some(ETagNow(path))
          /\ LastStatus = 200 =>
                /\ HeaderOfLast("Last-Modified") = Some(formatdate(fs[path].mtime))
                /\ HeaderOfLast("Content-Length") = Some(str(Len(fs[path].content)))
          /\ (LastStatus = 200 /\ last.request.method = "GET") =>
                last.body = fs[path].content

\* The last request found no file and went to the application
WentToApplication ==
    /\ ~last.served /\ last.raised = "" /\ last.app_calls = 1
    /\ last.resolved.type = "NoneType"

\* C25: on live lookup the result of resolving a URL depends only on the
\* registered directories and on the files as they are at the time of the
\* request: a file created under a registered root is resolved by the next
\* request, a deleted file resolves no longer, a changed file is served with
\* headers of its new size and mtime; nothing is kept between requests and
\* `files` is neither read nor written.
C25_LiveLookupFollowsFiles ==
    /\ autorefresh => files = EmptyDict
    /\ LiveResolution =>
          IF FileNow(decode_path_info(last.request.path)) = None THEN WentToApplication
          ELSE AnsweredFromFileNow(FileNow(decode_path_info(last.request.path))[1])

\* The new version of app.js is served with its own length to a request
\* that names the validator of the old version
C25_Witness ==
    /\ LiveResolution
    /\ last.request.path = "/static/app.js"
    /\ Sent("HTTP_IF_NONE_MATCH")
    /\ LastStatus = 200
    /\ HeaderOfLast("Content-Length") = Some("8")

\* A file created after the directories were registered is served
C25_CreatedServed ==
    /\ LiveResolution
    /\ last.request.path = "/static/new.js"
    /\ LastStatus = 200
    /\ last.body = "new"

\* A file that was deleted resolves no longer
C25_DeletedGone ==
    /\ LiveResolution
    /\ last.request.path = "/static/app.js"
    /\ WentToApplication

\* The index as add_files built it over the tree of the start
IndexAtStart == add_files(LiveTree, EmptyDict, <<>>, ConstructorRoot, ConstructorPrefix).files

\* A request was looked up in the index built once
IndexLookup ==
    EntryPointCalled /\ ~autorefresh /\ last.request.scope_type = "http"

\* The file of the only variant of the responder is gone
VariantGone(responder) == ~IsRegularFile(responder.alternatives[1][2])

\* The last request was answered from the entry of the index alone: with
\* the validators, the length and the date the file had when it was scanned
AnsweredFromEntry(entry, was) ==
    /\ last.resolved = entry
    /\ last.served /\ last.app_calls = 0
    /\ last.raised # "" =>
          /\ last.raised = "OSError"
          /\ last.request.method = "GET" /\ VariantGone(entry)
    /\ (last.request.method \in {"GET", "HEAD"} /\ LastStatus # 0) =>
          /\ LastStatus = (IF Sent("HTTP_IF_NONE_MATCH") THEN 304 ELSE 200)
          /\ HeaderOfLast("ETag") = Some("\"3c-6\"")
          /\ LastStatus = 200 =>
                /\ HeaderOfLast("Last-Modified") = Some(formatdate(was.mtime))
                /\ HeaderOfLast("Content-Length") = Some(str(Len(was.content)))
    /\ last.outcome.opened # None =>
          /\ last.request.method = "GET" /\ LastStatus \in {0, 200}
          /\ last.outcome.opened = Some(entry.alternatives[1][2])

\* C26: with the index built once, handling a request does nothing on the
\* filesystem but open and read the file of the variant already selected:
\* resolution is one exact lookup in `files`, so files created, deleted or
\* changed after add_files change neither which URLs resolve nor the
\* headers returned.
C26_IndexLookupIgnoresFiles ==
    /\ ~autorefresh => files = IndexAtStart
    /\ IndexLookup =>
          IF decode_path_info(last.request.path) \in DOMAIN IndexAtStart
          THEN AnsweredFromEntry(IndexAtStart[decode_path_info(last.request.path)],
                                 LiveTree["/srv/a/app.js"])
          ELSE WentToApplication

\* The file has changed and a request naming the validator it had when it
\* was scanned is still answered 304
C26_Witness ==
    /\ IndexLookup
    /\ last.request.path = "/static/app.js"
    /\ "/srv/a/app.js" \in DOMAIN fs /\ fs["/srv/a/app.js"].content = "abcdefgh"
    /\ Sent("HTTP_IF_NONE_MATCH")
    /\ LastStatus = 304

\* A file created after the scan has no URL
C26_CreatedUnknown ==
    /\ IndexLookup
    /\ last.request.path = "/static/new.js"
    /\ IsRegularFile("/srv/a/new.js")
    /\ WentToApplication

\* The status, the header list and the body of a returned response: whether
\* there is a body, the path of the variant it reads and the bytes it spans
Answer(response) ==
    IF response.type # "Response" THEN [raised |-> response.type]
    ELSE [status |-> response.status, headers |-> response.headers,
          has_body |-> response.file.kind # "none",
          path |-> response.file.path,
          sliced |-> response.file.kind = "sliced",
          first |-> response.file.start, last |-> response.file.end]

\* What the other form of the method called last returns for the same
\* responder, method and request headers
OtherFormOfLast ==
    IF last.op = "get_response"
    THEN StaticFile_aget_response(last.resolved, last.request.method,
                                  last.request.request_headers)
    ELSE StaticFile_get_response(fs, last.resolved, last.request.method,
                                 last.request.request_headers)

\* C27: for every method and every bag of request headers
\* StaticFile.aget_response returns the status and the header list that
\* StaticFile.get_response returns, and has a body exactly when the
\* synchronous form has one, both bodies being the same range of bytes of
\* the same variant.
C27_AsyncLikeSync ==
    StaticFileAsked =>
        /\ last.outcome.response.type = "Response"
        /\ Answer(OtherFormOfLast.response) = Answer(last.outcome.response)

\* The asynchronous form answered a range of a compressed variant with a
\* slice of that variant
C27_Witness ==
    /\ StaticFileAsked
    /\ last.op = "aget_response"
    /\ LastStatus = 206
    /\ last.outcome.response.file.kind = "sliced"
    /\ last.outcome.response.file.path # ServedPath
    /\ Answer(OtherFormOfLast.response) = Answer(last.outcome.response)

\* ------------------------------------------------------------------------
\* Properties of the cache headers (specification SpecCache)
\* ------------------------------------------------------------------------

\* Ten years in seconds, written out
TenYears == "315360000"

\* Does the configured immutability test accept the URL?
Accepted(url) ==
    IF user_immutable_file_test = None THEN FALSE
    ELSE \E i \in 1..Len(url) :
            /\ i + Len(user_immutable_file_test[1]) - 1 <= Len(url)
            /\ SubSeq(url, i, i + Len(user_immutable_file_test[1]) - 1)
                   = user_immutable_file_test[1]

\* The three cases a file falls in
CaseImmutable(url) == Accepted(url)

CaseMaxAge(url) == ~Accepted(url) /\ max_age # None

CaseNone(url) == ~Accepted(url) /\ max_age = None

\* The Cache-Control values of a header list
CacheControls(headers) ==
    [i \in {j \in 1..Len(headers) : lower(headers[j][1]) = "cache-control"} |-> headers[i][2]]

\* The header list carries the Cache-Control of the case of the URL, once,
\* or none in the third case
CacheControlOf(url, headers) ==
    LET found == CacheControls(headers)
        Only(value) == Cardinality(DOMAIN found) = 1 /\ \A i \in DOMAIN found : found[i] = value
    IN  /\ CaseImmutable(url) => Only("max-age=" \o TenYears \o ", public, immutable")
        /\ CaseMaxAge(url) =>
               Only("max-age=" \o (IF max_age[1] = 60 THEN "60" ELSE "0") \o ", public")
        /\ CaseNone(url) => DOMAIN found = {}

\* Every alternative of a StaticFile carries the Cache-Control of the URL
CacheControlOfFile(url, static_file) ==
    /\ Len(static_file.alternatives) >= 1
    /\ \A i \in 1..Len(static_file.alternatives) :
          CacheControlOf(url, static_file.alternatives[i][3])

\* The StaticFiles of the index, and the one a live lookup built for the
\* request handled last
IndexedStaticFiles == {url \in DOMAIN files : files[url].type = "StaticFile"}

BuiltForLast == autorefresh /\ last.resolved.type = "StaticFile"

\* C29: every StaticFile built by the index has the Cache-Control of exactly
\* one of three cases: "max-age=<ten years>, public, immutable" when the
\* immutability test accepts its URL, else "max-age=<max_age>, public" when
\* max_age is not None, else no Cache-Control header at all
C29_CacheControlByCase ==
    /\ \A url \in IndexedStaticFiles : CacheControlOfFile(url, files[url])
    /\ BuiltForLast => CacheControlOfFile(last.request.path, last.resolved)
    /\ \A url \in CacheUrls :
          Cardinality({c \in {"immutable", "max-age", "none"} :
                          \/ c = "immutable" /\ CaseImmutable(url)
                          \/ c = "max-age" /\ CaseMaxAge(url)
                          \/ c = "none" /\ CaseNone(url)}) = 1

\* An index holding files of the first and of the second case at once
C29_Witness ==
    /\ \E url \in IndexedStaticFiles : CaseImmutable(url)
    /\ \E url \in IndexedStaticFiles : CaseMaxAge(url)

\* An index holding files of the first and of the third case at once
C29_ImmutableAndNone ==
    /\ \E url \in IndexedStaticFiles : CaseImmutable(url)
    /\ \E url \in IndexedStaticFiles : CaseNone(url)

\* A live lookup built a file the test accepts although max_age is set
C29_LiveImmutable ==
    /\ BuiltForLast
    /\ CaseImmutable(last.request.path)
    /\ max_age # None

\* ------------------------------------------------------------------------
\* Properties of post_process (specification SpecStorage)
\* ------------------------------------------------------------------------

\* The call made last was a post_process with dry_run=True
DryRunOver == IF last.op = "post_process" THEN last.dry_run ELSE FALSE

\* The files under the static root: what each path holds, None without a file
UnderStaticRoot(fsys, path) == IF path \in DOMAIN fsys THEN Some(fsys[path]) ELSE None

SamePaths(before, after, paths) ==
    \A path \in paths : UnderStaticRoot(before, path) = UnderStaticRoot(after, path)

\* C30: post_process with dry_run=True on either storage creates, modifies
\* and deletes no file under the static root: no .gz or .br sibling is
\* written, no unhashed file is deleted, the manifest is not rewritten
C30_DryRunChangesNoFile ==
    DryRunOver =>
        /\ DOMAIN fs = DOMAIN last.before
        /\ SamePaths(last.before, fs, DOMAIN fs)

\* What the code keeps of C30: a dry run of CompressedStaticFilesStorage
\* changes no file, and a dry run of CompressedManifestStaticFilesStorage
\* changes no file but the manifest
C30_DryRunChangesManifestOnly ==
    DryRunOver =>
        /\ (DOMAIN fs) \ {storage_path(manifest_name)} =
               (DOMAIN last.before) \ {storage_path(manifest_name)}
        /\ SamePaths(last.before, fs, (DOMAIN fs) \ {storage_path(manifest_name)})
        /\ last.backend = "CompressedStaticFilesStorage" =>
               SamePaths(last.before, fs, {storage_path(manifest_name)})

\* A dry run over a static root that holds a file worth compressing, without
\* its siblings
C30_DryRunOverCompressible ==
    /\ DryRunOver
    /\ storage_path("styles.css") \in DOMAIN fs
    /\ storage_path("styles.css.gz") \notin DOMAIN fs

\* A dry run of the manifest storage left a manifest where there was none
C30_ManifestCreated ==
    /\ DryRunOver
    /\ storage_path(manifest_name) \in DOMAIN fs
    /\ storage_path(manifest_name) \notin DOMAIN last.before

\* A dry run of the manifest storage wrote the manifest that was there again
C30_ManifestRewritten ==
    /\ DryRunOver
    /\ storage_path(manifest_name) \in DOMAIN last.before
    /\ fs[storage_path(manifest_name)] # last.before[storage_path(manifest_name)]

\* A run without dry_run wrote siblings, deleted the unhashed files and
\* saved the manifest with the stats
C30_WetRun ==
    /\ IF last.op = "post_process" THEN ~last.dry_run ELSE FALSE
    /\ last.backend = "CompressedManifestStaticFilesStorage"
    /\ storage_path("styles.css") \in DOMAIN last.before
    /\ storage_path("styles.css") \notin DOMAIN fs
    /\ \E path \in DOMAIN fs : endswith(path, ".css.gz")
    /\ "stats" \in DOMAIN fs[storage_path(manifest_name)].content
    /\ "paths" \in DOMAIN fs[storage_path(manifest_name)].content

\* The conditional headers of the last request match the file: If-None-Match
\* names its ETag, or, without If-None-Match, If-Modified-Since names a time
\* at or after its Last-Modified
ConditionalMatch ==
    IF Sent("HTTP_IF_NONE_MATCH")
    THEN last.resolved.etag = Some(last.request.request_headers["HTTP_IF_NONE_MATCH"])
    ELSE IF Sent("HTTP_IF_MODIFIED_SINCE")
    THEN /\ LastModifiedSeconds >= 0
         /\ RequestedSeconds >= LastModifiedSeconds
    ELSE FALSE

\* C31: every response of a StaticFile has a status in {200, 206, 304, 405,
\* 416}; the method check comes first (405 whatever the headers are), then
\* the conditional check (a match gives 304 also with a Range header), and
\* only then encoding selection, file open and range handling; no file is
\* opened on the 405 and 304 paths
C31_ChecksInOrder ==
    StaticFileAsked =>
        /\ last.raised = ""
        /\ LastStatus \in {200, 206, 304, 405, 416}
        /\ (LastStatus = 405) <=> (last.request.method \notin {"GET", "HEAD"})
        /\ (LastStatus = 304) <=> (ReadAsked /\ ConditionalMatch)
        /\ LastStatus \in {304, 405} =>
              /\ last.outcome.opened = None
              /\ last.outcome.response.file.kind = "none"
        /\ (LastStatus \in {200, 206, 416} /\ last.op = "get_response"
            /\ last.request.method = "GET") =>
              \E v \in SelectedVariants : last.outcome.opened = Some(v[2])

\* A GET whose If-None-Match is the ETag and which asks for the first two
\* bytes was answered 304 and opened nothing
C31_Witness ==
    /\ StaticFileAsked /\ last.op = "get_response" /\ last.request.method = "GET"
    /\ Sent("HTTP_RANGE") /\ Sent("HTTP_IF_NONE_MATCH")
    /\ last.request.request_headers["HTTP_RANGE"] = "bytes=0-1"
    /\ ConditionalMatch
    /\ LastStatus = 304
    /\ last.outcome.opened = None

\* A POST with matching conditional headers was answered 405
C31_MethodFirst ==
    /\ StaticFileAsked /\ last.request.method = "POST"
    /\ ConditionalMatch
    /\ LastStatus = 405

\* ------------------------------------------------------------------------
\* Properties of the sliced files (specification SpecSliced)
\* ------------------------------------------------------------------------

\* A sliced file is being read
SlicedReading == run.pc = "sliced"

\* The places of the calls of one kind in the log of the file
CallsOf(log, func) == {i \in 1..Len(log) : log[i].func = func}

\* The file was sought once, and before every read of it; before the seek
\* it was not read at all
SoughtOnceBeforeReads(handle) ==
    /\ Cardinality(CallsOf(handle.log, "seek")) = IF handle.seeked THEN 1 ELSE 0
    /\ \A r \in CallsOf(handle.log, "read") :
          \E s \in CallsOf(handle.log, "seek") : s < r

\* The read made last found nothing left of the slice
ReadAtEnd == IF SlicedReading THEN run.calls > 0 /\ run.prev.remaining = 0 ELSE FALSE

\* C32: for any sequence of read(size) calls on a SlicedFile or an
\* AsyncSlicedFile built with (start, end): the underlying file is sought to
\* start exactly once, before the first underlying read; remaining never
\* becomes negative; the bytes returned never exceed end-start+1 in total;
\* and once remaining is 0 every further read returns empty bytes without
\* reading the underlying file
C32_SliceBounded ==
    SlicedReading =>
        /\ SoughtOnceBeforeReads(run.handle)
        /\ (run.calls > 0 /\ run.error = "") => run.handle.seeked
        /\ run.returned > 0 => run.handle.seeked
        /\ run.handle.seeked => run.handle.pos = run.handle.start + run.returned
        /\ run.handle.remaining >= 0
        /\ run.returned <= run.length
        /\ run.returned + run.handle.remaining = run.length
        /\ ReadAtEnd =>
              /\ run.data = ""
              /\ run.error = ""
              /\ run.handle.log = run.prev.log
              /\ run.handle.pos = run.prev.pos

\* A slice was read to its end in more than one read, and then read again
C32_Witness ==
    /\ ReadAtEnd
    /\ run.calls >= 3
    /\ run.returned = run.length
    /\ run.size # 0

\* An asynchronous slice whose first read could not open the file was read
\* afterwards
C32_ReadAfterFailedOpen ==
    /\ SlicedReading
    /\ run.form = "async"
    /\ run.calls >= 2
    /\ run.returned > 0
    /\ Cardinality(CallsOf(run.handle.log, "open")) >= 2

\* A slice of a file that was cut short: the reads go on asking the file
C32_CutShort ==
    /\ SlicedReading
    /\ run.calls >= 2
    /\ run.handle.remaining > 0
    /\ run.data = "" /\ run.error = "" /\ run.size # 0
    /\ run.handle.log # run.prev.log

\* The StaticFiles of the index (looked at between two calls)
StaticFilesBuilt == {url \in DOMAIN files : files[url].type = "StaticFile"}

\* The alternatives of a StaticFile that stand for the file itself: the empty
\* pattern and no Content-Encoding
IdentityVariants(self) ==
    {i \in 1..Len(self.alternatives) :
        /\ self.alternatives[i][1] = ""
        /\ ~HeadersHas(self.alternatives[i][3], "Content-Encoding")}

\* The request headers that carry the Accept-Encoding values sent, and none
AcceptEncodingBags == Optional("HTTP_ACCEPT_ENCODING", AcceptEncodingValues)

\* C33: for every StaticFile that was constructed and every Accept-Encoding
\* value, get_path_and_headers returns a variant and never raises the 'no
\* matching file' error: the identity variant is always among the
\* alternatives (encoded alternatives that are missing are skipped) and its
\* empty pattern matches every header value
C33_AlwaysAVariant ==
    /\ \A url \in (IF last = NoCall THEN StaticFilesBuilt ELSE {}) :
          /\ Cardinality(IdentityVariants(files[url])) = 1
          /\ \A i \in 1..Len(files[url].alternatives) :
                os_path_isfile(fs, files[url].alternatives[i][2])
          /\ \A bag \in AcceptEncodingBags :
                /\ get_path_and_headers(files[url], bag) # None
                /\ \E i \in 1..Len(files[url].alternatives) :
                      get_path_and_headers(files[url], bag)[1][1] =
                          files[url].alternatives[i][2]
    /\ StaticFileAsked => last.raised = ""

\* A StaticFile without encoded alternatives was asked for an encoding it
\* does not have and answered with the file itself
C33_Witness ==
    /\ StaticFileAsked /\ last.request.method = "GET"
    /\ Len(last.resolved.alternatives) = 1
    /\ Sent("HTTP_ACCEPT_ENCODING")
    /\ last.request.request_headers["HTTP_ACCEPT_ENCODING"] = "br"
    /\ LastStatus = 200
    /\ last.outcome.response.file.path = ServedPath

\* A StaticFile whose gzip alternative is missing was built with the brotli
\* alternative and the file itself
C33_MissingSkipped ==
    /\ "/srv/a/app.js.gz" \notin DOMAIN fs
    /\ "/srv/a/app.js.br" \in DOMAIN fs
    /\ \E url \in StaticFilesBuilt :
          {files[url].alternatives[i][1] : i \in 1..Len(files[url].alternatives)}
              = {"", "br"}

\* ------------------------------------------------------------------------
\* Properties of compressed variants and index files (specification Spec)
\* ------------------------------------------------------------------------

\* A regular file ending in .gz or .br next to the regular file it is the
\* compressed form of
IsVariantWithSibling(path) ==
    /\ LastChars(path, 3) \in {".gz", ".br"}
    /\ IsRegularFile(path)
    /\ IsRegularFile(DropLast(path, 3))

\* The file a StaticFile serves when no encoding is accepted
IdentityPath(self) ==
    self.alternatives[CHOOSE i \in IdentityVariants(self) : TRUE][2]

\* The last call asked an entry point for the URL of /srv/a/<name> with GET
AskedForFileUnderA(name) ==
    /\ EntryPointCalled
    /\ last.request.scope_type = "http"
    /\ last.request.method = "GET"
    /\ last.request.path = "/static/" \o name

\* C34: a file ending in .gz or .br whose un-suffixed sibling exists is
\* never addressable by its own URL, in either mode (the scan skips it, the
\* live lookup treats it as missing and goes on to the next directory); a
\* .gz or .br file without such a sibling is registered and served like
\* any other file
C34_VariantsNotAddressable ==
    /\ (~autorefresh /\ ~crashed /\ last = NoCall) =>
          \A url \in DOMAIN files :
             files[url].type = "StaticFile" => ~IsVariantWithSibling(IdentityPath(files[url]))
    /\ (EntryPointCalled /\ last.resolved.type = "StaticFile") =>
          ~IsVariantWithSibling(IdentityPath(last.resolved))
    /\ (AskedForFileUnderA("app.js.gz") /\ IsVariantWithSibling("/srv/a/app.js.gz")) =>
          /\ ~last.served
          /\ last.app_calls = 1
    /\ (AskedForFileUnderA("lone.gz") /\ IsRegularFile("/srv/a/lone.gz")) =>
          /\ ~IsVariantWithSibling("/srv/a/lone.gz")
          /\ last.served
          /\ last.resolved.type = "StaticFile"
          /\ IdentityPath(last.resolved) = "/srv/a/lone.gz"
          /\ ~Sent("HTTP_RANGE") => last.body = fs["/srv/a/lone.gz"].content

\* The URL of a compressed variant was asked for by a live lookup and went
\* to the application
C34_Witness ==
    /\ AskedForFileUnderA("app.js.gz")
    /\ IsVariantWithSibling("/srv/a/app.js.gz")
    /\ autorefresh
    /\ last.app_calls = 1

\* The same from the index built at the start
C34_VariantNotIndexed ==
    /\ AskedForFileUnderA("app.js.gz")
    /\ IsVariantWithSibling("/srv/a/app.js.gz")
    /\ ~autorefresh
    /\ "/static/app.js" \in DOMAIN files
    /\ last.app_calls = 1

\* A .gz file without sibling was served in both modes
C34_LoneServedLive ==
    AskedForFileUnderA("lone.gz") /\ autorefresh /\ last.body = "LONE"

C34_LoneServedIndexed ==
    AskedForFileUnderA("lone.gz") /\ ~autorefresh /\ last.body = "LONE"

\* ------------------------------------------------------------------------
\* Index files and directories that carry the name of the index file
\* (specification SpecIndexNames)
\* ------------------------------------------------------------------------

\* Trees with index files, one of them in a directory that is itself called
\* index.html
IndexNameTrees ==
    { BaseTree @@ ("/srv/a/docs" :> Directory)
               @@ ("/srv/a/docs/index.html" :> File("<p>docs</p>", 121))
               @@ ("/srv/a/index.html" :> File("<p>root</p>", 1))
               @@ ("/srv/b/app.js" :> File("B!", 7)),
      BaseTree @@ ("/srv/a/index.html" :> Directory)
               @@ ("/srv/a/index.html/index.html" :> File("<p>inner</p>", 121)),
      BaseTree @@ ("/srv/a/docs" :> Directory)
               @@ ("/srv/a/docs/index.html" :> File("<p>docs</p>", 121))
               @@ ("/srv/b/docs" :> Directory)
               @@ ("/srv/b/docs/index.html" :> Directory)
               @@ ("/srv/b/docs/index.html/index.html" :> File("<p>below</p>", 121)) }

IndexNameArgs == { <<"/srv/b", "static">>, <<"/srv/a/", "/static/">> }

IndexNameUrls ==
    { "/static/index.html", "/static/index.html/", "/static/index.html/index.html",
      "/static/docs/index.html", "/static/docs/index.html/",
      "/static/docs/index.html/index.html", "/static/docs/", "/static/docs",
      "/static/", "/static/app.js" }

IndexNameBags == { EmptyDict, ("QUERY_STRING" :> "v=1") }

InitIndexNames ==
    /\ fs \in IndexNameTrees
    /\ server \in {"ServeStatic", "ServeStaticASGI"}
    /\ application = "user_app"
    /\ autorefresh \in BOOLEAN
    /\ max_age = Some(60)
    /\ allow_all_origins = TRUE
    /\ index_file \in {None, Some("index.html")}
    /\ user_immutable_file_test = None
    /\ Constructed

IndexNameAddFiles == \E args \in IndexNameArgs : AddFilesUpTo(MaxReAdds, args[1], args[2])

IndexNameWsgiRequest == WsgiRequestFor(IndexNameUrls, IndexNameBags)

IndexNameAsgiRequest == AsgiRequestFor(IndexNameUrls, IndexNameBags)

NextIndexNames ==
    \/ IndexNameAddFiles
    \/ IndexNameWsgiRequest
    \/ IndexNameAsgiRequest
    \/ Return

SpecIndexNames == InitIndexNames /\ [][NextIndexNames]_vars

\* The responder is a Redirect whose Location, resolved against the URL it
\* is the answer for, is `target`
RedirectFromTo(responder, url, target) ==
    /\ responder.type = "Redirect"
    /\ responder.response.status = 302
    /\ \E location \in {HeadersGet(responder.response.headers, "Location")} :
          location # None /\ ResolvedAgainst(url, location[1]) = target

\* An entry point was asked for a URL over HTTP
AskedOverHttp == EntryPointCalled /\ last.request.scope_type = "http"

\* The URL with the index name stripped and, when asked for, the URL with a
\* slash added of a URL that is the URL of a directory holding an index file
RedirectTargets(url, of_directory) ==
    {DirectoryUrl(url)}
    \cup (IF of_directory /\ DirectoryWithIndex(url) THEN {url \o "/"} ELSE {})

\* What a URL that ends with '/<index>' resolves to: nothing, or a redirect
\* to one of its targets
IndexUrlsResolveWithin(of_directory) ==
    /\ (index_file # None /\ ~autorefresh /\ ~crashed) =>
          \A url \in DOMAIN files :
             IsIndexUrl(url) =>
                \E target \in RedirectTargets(url, of_directory) :
                   RedirectFromTo(files[url], url, target)
    /\ (AskedOverHttp /\ index_file # None
          /\ IsIndexUrl(decode_path_info(last.request.path))) =>
          \/ last.resolved.type = "NoneType"
          \/ \E target \in RedirectTargets(decode_path_info(last.request.path),
                                           of_directory) :
                RedirectFromTo(last.resolved, decode_path_info(last.request.path), target)

\* Without an index file name the live lookup resolves no URL ending in '/'
SlashUrlsUnresolvedLive ==
    (AskedOverHttp /\ index_file = None /\ autorefresh
       /\ endswith(decode_path_info(last.request.path), "/")) =>
          /\ last.resolved.type = "NoneType"
          /\ ~last.served

\* C35 as stated: with an index file name configured, a URL ending in
\* '/<index>' never resolves to a StaticFile, in either mode and after any
\* sequence of add_files calls, but to a Redirect to the URL with the index
\* name stripped or to nothing; without an index file name no URL ending in
\* '/' resolves on live lookup.
C35_IndexNameStripped ==
    /\ IndexUrlsResolveWithin(FALSE)
    /\ SlashUrlsUnresolvedLive

\* C35, amended: with an index file name configured, a URL ending in
\* '/<index>' never resolves to a StaticFile, in either mode and after any
\* sequence of add_files calls: it resolves to a Redirect to the URL with the
\* index name stripped, or - the URL being that of a directory which holds an
\* index file - to a Redirect to the URL followed by '/', or to nothing;
\* without an index file name no URL ending in '/' resolves on live lookup.
C35_IndexNameNeverServed ==
    /\ IndexUrlsResolveWithin(TRUE)
    /\ SlashUrlsUnresolvedLive

\* The index built at the start answered the URL of a directory called
\* index.html by the redirect to the directory
C35_Witness ==
    /\ AskedOverHttp /\ index_file # None /\ ~autorefresh
    /\ last.request.path = "/static/index.html"
    /\ "/static/index.html/" \in DOMAIN files
    /\ RedirectFromTo(last.resolved, "/static/index.html", "/static/index.html/")
    /\ last.outcome.response.status = 302

\* The URL of an index file was redirected to its directory on live lookup
C35_StrippedLive ==
    /\ AskedOverHttp /\ index_file # None /\ autorefresh
    /\ last.request.path = "/static/docs/index.html"
    /\ RedirectFromTo(last.resolved, "/static/docs/index.html", "/static/docs/")

\* The same from the index built at the start, after two more add_files calls
C35_StrippedIndexed ==
    /\ AskedOverHttp /\ index_file # None /\ ~autorefresh
    /\ Len(added) = 3
    /\ last.request.path = "/static/docs/index.html"
    /\ RedirectFromTo(last.resolved, "/static/docs/index.html", "/static/docs/")

\* A URL ending in '/' went to the application on live lookup without an
\* index file name
C35_SlashUnresolved ==
    /\ AskedOverHttp /\ index_file = None /\ autorefresh
    /\ last.request.path = "/static/docs/"
    /\ last.app_calls = 1

\* ------------------------------------------------------------------------
\* The two modes compared (specifications SpecPrecedence, SpecIndexNames)
\* ------------------------------------------------------------------------

\* The dictionary the first n add_files calls build by scanning, and the
\* error a scan raised
RECURSIVE ScannedIndex(_)
ScannedIndex(n) ==
    IF n = 0 THEN [type |-> "files", items |-> EmptyDict]
    ELSE LET Then(before, root, prefix) ==
                 IF IsError(before) THEN before
                 ELSE IF os_path_isdir(fs, root)
                 THEN update_files_dictionary(fs, before.items, root, prefix)
                 ELSE before
         IN  Then(ScannedIndex(n - 1), AbsRoot(added[n][1]),
                  ensure_leading_trailing_slash(added[n][2]))

\* The list of directories the first n add_files calls leave for live lookup
RECURSIVE LiveDirectories(_)
LiveDirectories(n) ==
    IF n = 0 THEN <<>>
    ELSE insert_directory(LiveDirectories(n - 1), AbsRoot(added[n][1]),
                          ensure_leading_trailing_slash(added[n][2]))

\* What a URL resolves to in static mode after the add_files calls made
ResolvedStatic(url) ==
    IF autorefresh THEN files_get(ScannedIndex(Len(added)).items, url)
    ELSE files_get(files, url)

\* What a URL resolves to in autorefresh mode after the add_files calls made
ResolvedLive(url) ==
    IF autorefresh THEN find_file(fs, directories, url)
    ELSE find_file(fs, LiveDirectories(Len(added)), url)

\* What is compared of a resolution: nothing, the Location of a Redirect,
\* the paths and headers of the variants of a StaticFile
OutcomeOf(responder) ==
    CASE responder.type = "NoneType"   -> <<"none">>
      [] responder.type = "Redirect"   ->
            <<"redirect", HeadersGet(responder.response.headers, "Location")>>
      [] responder.type = "StaticFile" ->
            <<"file", [i \in 1..Len(responder.alternatives) |->
                          <<responder.alternatives[i][2], responder.alternatives[i][3]>>]>>
      [] OTHER                         -> <<"raised", responder.type>>

\* The add_files calls made so far are over and can be made in both modes
BothModesBuilt ==
    /\ last = NoCall
    /\ ~crashed
    /\ ~IsError(ScannedIndex(Len(added)))

ModesAgreeOn(url) == OutcomeOf(ResolvedStatic(url)) = OutcomeOf(ResolvedLive(url))

\* C36: for the same sequence of add_files calls (repeated calls with the
\* same root and prefix included) over the same unchanged filesystem, static
\* mode and autorefresh mode resolve every URL to the same outcome: both
\* nothing, both a Redirect with the same Location, or both a StaticFile for
\* the same path with the same headers.
C36_ModesAgree == BothModesBuilt => \A url \in Urls : ModesAgreeOn(url)

\* The URL is a registered prefix without its trailing slash
IsPrefixWithoutSlash(url) == \E reg \in Registered : url \o "/" = reg[2]

\* The URL names, under a registered root, a directory that carries the name
\* of the index file
IsDirectoryNamedIndex(url) ==
    /\ IsIndexUrl(url)
    /\ \E path \in CandidatePathsOf(url) : path \in DOMAIN fs /\ fs[path].kind = "dir"

\* The two modes agree while no directory is registered twice, the prefixes
\* are canonical, and the URL is neither a prefix without its slash nor that
\* of a directory called like the index file
C36_ModesAgreeOtherwise ==
    (BothModesBuilt /\ NothingReAdded /\ PrefixesCanonical) =>
        \A url \in Urls \cup IndexNameUrls :
           (~IsPrefixWithoutSlash(url) /\ ~IsDirectoryNamedIndex(url)) => ModesAgreeOn(url)

\* A directory was registered again and the modes serve app.js from
\* different roots
C36_ReAddedDiffer ==
    /\ BothModesBuilt
    /\ Len(added) = 3 /\ ~NothingReAdded
    /\ ServesFile(ResolvedStatic("/static/app.js"), "/srv/a/app.js")
    /\ ServesFile(ResolvedLive("/static/app.js"), "/srv/b/app.js")

\* Both modes resolve a URL to the same StaticFile and another to nothing
C36_SameFile ==
    /\ BothModesBuilt
    /\ Len(added) = 2
    /\ ResolvedStatic("/static/app.js").type = "StaticFile"
    /\ ModesAgreeOn("/static/app.js")
    /\ ResolvedLive("/static/missing.js").type = "NoneType"
    /\ ModesAgreeOn("/static/missing.js")

\* ------------------------------------------------------------------------
\* The file handle of the synchronous get_response (specification
\* SpecResponder)
\* ------------------------------------------------------------------------

\* The response returned carries the file opened at `path`, as it is or
\* wrapped in a SlicedFile
CarriesFile(response, path) ==
    /\ response.type = "Response"
    /\ response.file.kind \in {"file", "sliced"}
    /\ response.file.path = path

\* The response returned carries no file
CarriesNoFile(response) ==
    response.type = "Response" => response.file.kind = "none"

\* C37: for every call of the synchronous StaticFile.get_response, a file
\* handle opened during the call is either the body of the returned response
\* (as it is, or wrapped by the SlicedFile body) or has been closed before
\* the call returns: the 416 path closes it, the path of the ignored Range
\* passes it on in the 200 response, and no path drops an open handle.
C37_HandleReturnedOrClosed ==
    (last.op = "get_response" /\ last.resolved.type = "StaticFile") =>
        /\ (last.outcome.opened # None /\ last.outcome.closed) =>
              CarriesNoFile(last.outcome.response)
        /\ (last.outcome.opened # None /\ ~last.outcome.closed) =>
              CarriesFile(last.outcome.response, last.outcome.opened[1])
        /\ last.outcome.opened = None =>
              /\ ~last.outcome.closed
              /\ CarriesNoFile(last.outcome.response)
        /\ (LastStatus = 416 /\ last.request.method = "GET") =>
              /\ last.outcome.opened # None
              /\ last.outcome.closed
        /\ (UninterpretableRangeSent /\ LastStatus = 200 /\ last.request.method = "GET") =>
              /\ last.outcome.opened # None
              /\ last.outcome.response.file = OpenFile(last.outcome.opened[1])
        /\ (LastStatus \in {200, 206} /\ last.request.method = "GET") =>
              last.outcome.opened # None

\* A GET with a range beyond the end of the file was answered 416 and the
\* file opened for it was closed
C37_Witness ==
    /\ last.op = "get_response" /\ last.request.method = "GET"
    /\ LastStatus = 416
    /\ last.outcome.opened = Some(ServedPath)
    /\ last.outcome.closed
    /\ last.outcome.response.file.kind = "none"

\* A GET with a Range that is ignored got the open file in its 200 response
C37_IgnoredRangePassedOn ==
    /\ last.op = "get_response" /\ last.request.method = "GET"
    /\ UninterpretableRangeSent /\ LastStatus = 200
    /\ last.outcome.opened # None /\ ~last.outcome.closed
    /\ last.outcome.response.file.kind = "file"

\* A GET with a range got the open file wrapped in a SlicedFile
C37_SlicePassedOn ==
    /\ last.op = "get_response" /\ last.request.method = "GET"
    /\ LastStatus = 206
    /\ last.outcome.opened # None /\ ~last.outcome.closed
    /\ last.outcome.response.file.kind = "sliced"
    /\ last.outcome.response.file.path = last.outcome.opened[1]

\* ------------------------------------------------------------------------
\* utils.py: an AsyncFile in the hands of one coroutine, one awaited method
\* at a time (specification SpecAsyncFile).  `run` holds the AsyncFile
\* (handle), the AsyncFile before the method called last (prev), the method
\* (op), what it returned or raised (data, error) and the number of methods
\* called so far (calls).
\* ------------------------------------------------------------------------

\* How many methods the coroutine calls on one AsyncFile
MaxCalls == 4

AsyncFileMethods == {"read", "seek", "__aenter__", "close", "__aexit__"}

\* The sizes read and the offsets sought
AsyncFileArgs == {-1, 0, 2}

AsyncFilePaths == {"/srv/a/app.js", "/srv/a/missing.js"}

\* read, seek and __aenter__ are wrapped in open_lazy; close and __aexit__
\* are not
AsyncFile_call(fsys, handle, op, arg, opens, reads) ==
    LET Returned(after) == [handle |-> after, data |-> "", error |-> ""]
        Opened(opened) ==
            IF "type" \in DOMAIN opened
            THEN [handle |-> opened.handle, data |-> "", error |-> opened.type]
            ELSE IF op = "read" THEN AsyncFile_read(fsys, opened, arg, reads)
            ELSE IF op = "seek" THEN Returned(AsyncFile_seek(opened, arg))
            ELSE Returned(opened)
    IN  IF op \in {"close", "__aexit__"} THEN Returned(AsyncFile_close(handle))
        ELSE Opened(open_lazy(handle, opens))

AsyncFileObject(handle) ==
    [pc |-> "asyncfile", handle |-> handle, prev |-> handle, op |-> "", data |-> "",
     error |-> "", calls |-> 0]

InitAsyncFile ==
    /\ fs \in StreamTrees
    /\ server = "ServeStaticASGI"
    /\ application = "NotFoundASGI"
    /\ autorefresh = FALSE
    /\ max_age = Some(60)
    /\ allow_all_origins = TRUE
    /\ index_file = None
    /\ user_immutable_file_test = None
    /\ Constructed

\* AsyncFile(path, "rb")
AsyncFileCreate ==
    /\ run = NoRun
    /\ \E path \in AsyncFilePaths : run' = AsyncFileObject(AsyncFile(OpenFile(path)))
    /\ UNCHANGED <<fs, config, files, directories, crashed, added, last>>

\* await file.<method>(...), from its call to its return
AsyncFileCall ==
    /\ run.pc = "asyncfile"
    /\ run.calls < MaxCalls
    /\ \E op \in AsyncFileMethods, arg \in AsyncFileArgs, opens \in BOOLEAN, reads \in BOOLEAN :
          /\ arg = 0 \/ op \in {"read", "seek"}
          /\ arg >= 0 \/ op = "read"
          /\ LET Done(result) ==
                     run' = [run EXCEPT !.prev = run.handle, !.handle = result.handle,
                                        !.op = op, !.data = result.data,
                                        !.error = result.error, !.calls = @ + 1]
             IN  Done(AsyncFile_call(fs, run.handle, op, arg,
                                     opens /\ os_path_isfile(fs, run.handle.path), reads))
    /\ UNCHANGED <<fs, config, files, directories, crashed, added, last>>

\* The coroutine lets go of the AsyncFile
AsyncFileDrop ==
    /\ run.pc = "asyncfile"
    /\ run' = NoRun
    /\ UNCHANGED <<fs, config, files, directories, crashed, added, last>>

NextAsyncFile ==
    \/ AsyncFileCreate
    \/ AsyncFileCall
    \/ AsyncFileDrop

SpecAsyncFile == InitAsyncFile /\ [][NextAsyncFile]_vars

\* The calls of `func` the AsyncFile made on its file so far
CallsOn(handle, func) == {i \in 1..Len(handle.log) : handle.log[i].func = func}

\* The calls of open() that returned a file: each is followed in the log by
\* no further open()
OpenedOnce(handle) ==
    /\ handle.file_obj = "none" => \A i \in 1..Len(handle.log) : handle.log[i].func = "open"
    /\ handle.file_obj # "none" =>
          /\ CallsOn(handle, "open") # {}
          /\ \A i \in 1..Len(handle.log) :
                \A j \in CallsOn(handle, "open") :
                   handle.log[i].func # "open" => j < i

\* C38: an AsyncFile used by one coroutine opens its file lazily and at most
\* once, on the first read, seek or context entry; after close() every read
\* or seek raises ValueError without opening or touching the file; close()
\* on an AsyncFile that was never opened opens nothing; and a file that was
\* opened is closed by close().
C38_LazyOpenAndClose ==
    run.pc = "asyncfile" =>
        /\ run.calls = 0 => (run.handle.file_obj = "none" /\ run.handle.log = <<>>)
        /\ OpenedOnce(run.handle)
        /\ (run.calls > 0 /\ run.prev.file_obj = "none" /\ run.handle.file_obj # "none") =>
              /\ run.op \in {"read", "seek", "__aenter__"}
              /\ run.handle.file_obj = "open"
              /\ ~run.prev.closed
        /\ (run.calls > 0 /\ run.prev.file_obj = "open") =>
              ~\E i \in CallsOn(run.handle, "open") : i > Len(run.prev.log)
        /\ (run.calls > 0 /\ run.prev.closed /\ run.op \in {"read", "seek", "__aenter__"}) =>
              /\ run.error = "ValueError"
              /\ run.data = ""
              /\ run.handle = run.prev
        /\ (run.calls > 0 /\ run.op \in {"close", "__aexit__"}) =>
              /\ run.error = ""
              /\ run.handle.closed
              /\ run.handle.file_obj # "open"
              /\ CallsOn(run.handle, "open") = CallsOn(run.prev, "open")
              /\ run.prev.file_obj = "none" =>
                    (run.handle.file_obj = "none" /\ run.handle.log = run.prev.log)
              /\ run.prev.file_obj = "open" =>
                    /\ run.handle.file_obj = "closed"
                    /\ run.handle.log[Len(run.handle.log)].func = "close"

\* The file was opened by a read, read again, closed, and a further read
\* raised ValueError and left the file alone
C38_Witness ==
    /\ run.pc = "asyncfile"
    /\ run.calls = 4
    /\ run.op = "read" /\ run.error = "ValueError"
    /\ run.handle = run.prev
    /\ run.handle.closed /\ run.handle.file_obj = "closed"
    /\ [i \in 1..Len(run.handle.log) |-> run.handle.log[i].func]
          = <<"open", "read", "read", "close">>

\* close() on an AsyncFile that was never opened made no call
C38_ClosedUnopened ==
    /\ run.pc = "asyncfile"
    /\ run.calls = 1 /\ run.op = "close"
    /\ run.handle.closed /\ run.handle.file_obj = "none" /\ run.handle.log = <<>>

\* The whole file was read by read(-1) after the context was entered
C38_ReadAll ==
    /\ run.pc = "asyncfile"
    /\ run.calls = 2 /\ run.op = "read" /\ run.data = "abcdef"
    /\ Cardinality(CallsOn(run.handle, "open")) = 1

\* ------------------------------------------------------------------------
\* utils.py: two coroutines of one event loop on the same AsyncFile
\* (specifications SpecConcurrent, SpecConcurrentLive).  The event loop has
\* one thread: a coroutine runs from one await to the next without another
\* coroutine in between, the executor of the AsyncFile runs its jobs on a
\* thread of its own.  `run` holds the AsyncFile (handle), the coroutine
\* that holds self.lock (lock, 0 for none), the coroutine whose
\* lock.acquire() blocks the thread of the event loop (blocked, 0 for
\* none), the jobs submitted to the executor (jobs) and, for each
\* coroutine (co), where it stands: "ready" before its call, "awaiting" the
\* future of run_in_executor, "acquiring" inside lock.acquire(), "done".
\* ------------------------------------------------------------------------

Coroutines == {1, 2}

ConcurrentMethods == {"read", "seek"}

ConcurrentArgs == {0, 2}

NotCalled ==
    [pc |-> "ready", op |-> "", arg |-> 0, func |-> "", future |-> "", data |-> "",
     error |-> ""]

ConcurrentObject(handle) ==
    [pc |-> "concurrent", handle |-> handle, lock |-> 0, blocked |-> 0, jobs |-> <<>>,
     co |-> [c \in Coroutines |-> NotCalled]]

\* AsyncFile._execute up to its await: `with self.lock` blocks the calling
\* thread while another coroutine holds the lock, else the lock is taken and
\* the job goes to the executor
AsyncFile_execute_begin(r, c, func) ==
    IF r.lock # 0
    THEN [r EXCEPT !.blocked = c, !.co[c].pc = "acquiring", !.co[c].func = func]
    ELSE [r EXCEPT !.lock = c,
                   !.jobs = Append(@, [co |-> c, func |-> func]),
                   !.co[c].pc = "awaiting", !.co[c].func = func,
                   !.co[c].future = "pending"]

\* The wrapper of open_lazy up to its first await
open_lazy_begin(r, c, op, arg) ==
    LET Called(called) ==
            IF called.handle.closed
            THEN [called EXCEPT !.co[c].pc = "done", !.co[c].error = "ValueError"]
            ELSE IF called.handle.file_obj = "none"
            THEN AsyncFile_execute_begin(called, c, "open")
            ELSE AsyncFile_execute_begin(called, c, op)
    IN  Called([r EXCEPT !.co[c].op = op, !.co[c].arg = arg])

\* The executor thread runs the job submitted first and sets its future
executor_run(fsys, r) ==
    LET job == Head(r.jobs)
        c   == job.co
        Ran(after, data, error) ==
            [r EXCEPT !.handle = after, !.jobs = Tail(@), !.co[c].future = "done",
                      !.co[c].data = data, !.co[c].error = error]
        Read(result) == Ran(result.handle, result.data, result.error)
    IN  IF job.func = "open"
        THEN Ran(AsyncFile_execute(r.handle, "open"), "",
                 IF os_path_isfile(fsys, r.handle.path) THEN "" ELSE "OSError")
        ELSE IF job.func = "read"
        THEN Read(AsyncFile_read(fsys, r.handle, r.co[c].arg, TRUE))
        ELSE Ran(AsyncFile_seek(r.handle, r.co[c].arg), "", "")

\* The event loop resumes a coroutine whose future is set: the with block
\* is left and the lock released; after open() the file object is assigned
\* and the wrapped method goes on to its own _execute
AsyncFile_execute_resume(r, c) ==
    LET Released(released) ==
            IF released.co[c].error # "" THEN [released EXCEPT !.co[c].pc = "done"]
            ELSE IF released.co[c].func = "open"
            THEN AsyncFile_execute_begin([released EXCEPT !.handle.file_obj = "open"],
                                         c, released.co[c].op)
            ELSE [released EXCEPT !.co[c].pc = "done"]
    IN  Released([r EXCEPT !.lock = 0])

InitConcurrent == InitAsyncFile

\* AsyncFile(path, "rb"), handed to two coroutines as it is or after one
\* of them entered its context
ConcurrentCreate ==
    /\ run = NoRun
    /\ \E path \in AsyncFilePaths, entered \in BOOLEAN :
          /\ entered => os_path_isfile(fs, path)
          /\ run' = ConcurrentObject(IF entered THEN open_lazy(AsyncFile(OpenFile(path)), TRUE)
                                     ELSE AsyncFile(OpenFile(path)))
    /\ UNCHANGED <<fs, config, files, directories, crashed, added, last>>

\* The event loop runs a coroutine up to its first await
ConcurrentBegin ==
    /\ run.pc = "concurrent"
    /\ run.blocked = 0
    /\ \E c \in Coroutines, op \in ConcurrentMethods, arg \in ConcurrentArgs :
          /\ run.co[c].pc = "ready"
          /\ run' = open_lazy_begin(run, c, op, arg)
    /\ UNCHANGED <<fs, config, files, directories, crashed, added, last>>

\* The thread of the executor runs a job
ConcurrentExecutor ==
    /\ run.pc = "concurrent"
    /\ run.jobs # <<>>
    /\ run' = executor_run(fs, run)
    /\ UNCHANGED <<fs, config, files, directories, crashed, added, last>>

\* The event loop resumes a coroutine
ConcurrentResume ==
    /\ run.pc = "concurrent"
    /\ run.blocked = 0
    /\ \E c \in Coroutines :
          /\ run.co[c].pc = "awaiting"
          /\ run.co[c].future = "done"
          /\ run' = AsyncFile_execute_resume(run, c)
    /\ UNCHANGED <<fs, config, files, directories, crashed, added, last>>

\* Both calls are over and the AsyncFile is let go
ConcurrentDone ==
    /\ run.pc = "concurrent"
    /\ \A c \in Coroutines : run.co[c].pc = "done"
    /\ run' = NoRun
    /\ UNCHANGED <<fs, config, files, directories, crashed, added, last>>

NextConcurrent ==
    \/ ConcurrentCreate
    \/ ConcurrentBegin
    \/ ConcurrentExecutor
    \/ ConcurrentResume
    \/ ConcurrentDone

SpecConcurrent == InitConcurrent /\ [][NextConcurrent]_vars

\* The event loop runs every coroutine that can go on and the executor
\* thread runs every job it was given
SpecConcurrentLive ==
    /\ SpecConcurrent
    /\ WF_vars(ConcurrentBegin)
    /\ WF_vars(ConcurrentExecutor)
    /\ WF_vars(ConcurrentResume)
    /\ WF_vars(ConcurrentDone)

\* Both coroutines are inside their calls
CallsOverlap ==
    /\ run.pc = "concurrent"
    /\ \A c \in Coroutines : run.co[c].pc \in {"awaiting", "acquiring"}

BothCompleted ==
    /\ run.pc = "concurrent"
    /\ \A c \in Coroutines : run.co[c].pc = "done"

\* C39: when two coroutines of the same event loop call read or seek on the
\* same AsyncFile concurrently, both calls eventually complete: the lock of
\* _execute, held across the awaited executor call, never blocks the thread
\* of the event loop forever.
C39_BothCallsComplete == CallsOverlap ~> BothCompleted

\* The thread of the event loop is inside lock.acquire() while the holder
\* of the lock waits to be resumed, its job done
C39_Deadlocked ==
    /\ run.pc = "concurrent"
    /\ run.blocked # 0
    /\ run.lock # 0 /\ run.lock # run.blocked
    /\ run.co[run.lock].pc = "awaiting" /\ run.co[run.lock].future = "done"
    /\ run.jobs = <<>>

\* Once the thread of the event loop is inside lock.acquire() the lock is
\* never released and no coroutine goes on
C39_BlockedForever ==
    [][(run.pc = "concurrent" /\ run.blocked # 0) =>
          /\ run'.pc = "concurrent"
          /\ run'.blocked = run.blocked
          /\ run'.lock = run.lock
          /\ \A c \in Coroutines : run'.co[c].pc = run.co[c].pc]_vars

\* The calls overlap only with the thread of the event loop blocked
C39_OverlapBlocks == CallsOverlap => run.blocked # 0

\* Calls made one after the other complete, and the file is opened once
C39_SequentialComplete ==
    /\ BothCompleted
    /\ \A c \in Coroutines : run.co[c].error = ""
    /\ Cardinality(CallsOn(run.handle, "open")) = 1
    /\ Len(run.handle.log) = 3

\* ------------------------------------------------------------------------
\* utils.py: AsyncToSyncIterator over an AsyncFileIterator, one call of the
\* consumer at a time (specification SpecIterator).  `run` holds the state
\* of the generator of __iter__ (state: "created", "suspended" at its yield,
\* "finished"), how it finished (exit), its event loop and its executor
\* ("none" before the generator has started), the state of the async
\* generator of AsyncFileIterator.__aiter__ (agen), its file (handle), the
\* items handed to the consumer (yielded) and the exception that left the
\* generator (error).
\* ------------------------------------------------------------------------

\* AsyncFileIterator.__aiter__, one __anext__: the context of the file is
\* entered by the first, a chunk is read, and the context is left when the
\* chunk is empty or the read raised
AsyncFileIterator_anext(fsys, agen, handle, opens, reads) ==
    LET Read(result) ==
            IF result.error # ""
            THEN [agen |-> "finished", handle |-> AsyncFile_close(result.handle),
                  item |-> "", error |-> result.error]
            ELSE IF result.data = ""
            THEN [agen |-> "finished", handle |-> AsyncFile_close(result.handle),
                  item |-> "", error |-> "StopAsyncIteration"]
            ELSE [agen |-> "suspended", handle |-> result.handle, item |-> result.data,
                  error |-> ""]
        Chunk(entered) == Read(async_file_read(fsys, entered, get_block_size, opens, reads))
        Entered(opened) ==
            IF "type" \in DOMAIN opened
            THEN [agen |-> "finished", handle |-> opened.handle, item |-> "",
                  error |-> opened.type]
            ELSE Chunk(opened)
    IN  IF agen = "finished"
        THEN [agen |-> agen, handle |-> handle, item |-> "", error |-> "StopAsyncIteration"]
        ELSE IF agen = "suspended" \/ handle.kind = "sliced" THEN Chunk(handle)
        ELSE Entered(open_lazy(handle, opens))

\* next() on the generator of AsyncToSyncIterator.__iter__: the first call
\* creates the loop and the executor; StopAsyncIteration is suppressed and
\* the loop and the executor are closed after the with block, any other
\* exception leaves the generator from inside the block
AsyncToSyncIterator_next(fsys, r, opens, reads) ==
    LET Stepped(started, step) ==
            IF step.error = ""
            THEN [started EXCEPT !.state = "suspended", !.agen = step.agen,
                                 !.handle = step.handle,
                                 !.yielded = Append(@, step.item)]
            ELSE IF step.error = "StopAsyncIteration"
            THEN [started EXCEPT !.state = "finished", !.exit = "exhausted",
                                 !.loop = "closed", !.executor = "shutdown",
                                 !.agen = step.agen, !.handle = step.handle]
            ELSE [started EXCEPT !.state = "finished", !.exit = "raised",
                                 !.error = step.error,
                                 !.agen = step.agen, !.handle = step.handle]
    IN  Stepped([r EXCEPT !.loop = "open", !.executor = "running"],
                AsyncFileIterator_anext(fsys, r.agen, r.handle, opens, reads))

\* close() on the generator: GeneratorExit is thrown at the yield and
\* suppressed, the loop and the executor are closed after the with block;
\* a generator that has not started runs nothing
AsyncToSyncIterator_close(r) ==
    IF r.state = "created" THEN [r EXCEPT !.state = "finished", !.exit = "closed"]
    ELSE [r EXCEPT !.state = "finished", !.exit = "closed", !.loop = "closed",
                   !.executor = "shutdown"]

\* The files iterated over: whole files, and slices of a file
IteratedFiles ==
    {OpenFile(path) : path \in AsyncFilePaths \cup {"/srv/a/empty.txt", "/srv/a/docs/index.html"}}
    \cup {SlicedFile(OpenFile("/srv/a/app.js"), range[1], range[2]) :
             range \in {<<0, 1>>, <<0, 3>>, <<1, 2>>, <<1, 5>>, <<2, 9>>}}
    \cup {SlicedFile(OpenFile("/srv/a/docs/index.html"), 3, 10)}

\* iter(AsyncToSyncIterator(AsyncFileIterator(file)))
IteratorObject(file) ==
    [pc |-> "iterator", state |-> "created", exit |-> "", loop |-> "none",
     executor |-> "none", agen |-> "created", handle |-> AsyncFile(file),
     yielded |-> <<>>, error |-> ""]

InitIterator == InitAsyncFile

IteratorCreate ==
    /\ run = NoRun
    /\ \E file \in IteratedFiles :
          /\ file.kind = "sliced" => os_path_isfile(fs, file.path)
          /\ run' = IteratorObject(file)
    /\ UNCHANGED <<fs, config, files, directories, crashed, added, last>>

\* The consumer asks for the next item
IteratorNext ==
    /\ run.pc = "iterator"
    /\ run.state \in {"created", "suspended"}
    /\ \E opens \in BOOLEAN, reads \in BOOLEAN :
          run' = AsyncToSyncIterator_next(fs, run,
                                          opens /\ os_path_isfile(fs, run.handle.path), reads)
    /\ UNCHANGED <<fs, config, files, directories, crashed, added, last>>

\* The consumer closes the generator before it is exhausted
IteratorClose ==
    /\ run.pc = "iterator"
    /\ run.state \in {"created", "suspended"}
    /\ run' = AsyncToSyncIterator_close(run)
    /\ UNCHANGED <<fs, config, files, directories, crashed, added, last>>

\* The consumer lets go of the generator that has finished
IteratorDrop ==
    /\ run.pc = "iterator"
    /\ run.state = "finished"
    /\ run' = NoRun
    /\ UNCHANGED <<fs, config, files, directories, crashed, added, last>>

NextIterator ==
    \/ IteratorCreate
    \/ IteratorNext
    \/ IteratorClose
    \/ IteratorDrop

SpecIterator == InitIterator /\ [][NextIterator]_vars

\* The bytes of the file the iterator is over
IteratedContent ==
    IF run.handle.kind = "sliced"
    THEN SubSeq(fs[run.handle.path].content, run.handle.start + 1,
                Min(run.handle.start + (run.handle.remaining + Len(join("", run.yielded))),
                    Len(fs[run.handle.path].content)))
    ELSE fs[run.handle.path].content

\* The items are the blocks of the file from its start, in order
YieldedInOrder ==
    /\ \A i \in 1..Len(run.yielded) :
          run.yielded[i] =
             SubSeq(IteratedContent, (i - 1) * get_block_size + 1,
                    Min(i * get_block_size, Len(IteratedContent)))
    /\ run.exit = "exhausted" => join("", run.yielded) = IteratedContent

\* The generator has started and finished
IterationOver == run.pc = "iterator" /\ run.state = "finished" /\ run.loop # "none"

LoopAndExecutorReleased == run.loop = "closed" /\ run.executor = "shutdown"

FileOfIteratorClosed == run.handle.file_obj # "open"

\* C40: AsyncToSyncIterator yields the items of the wrapped async iterator
\* in order, and on every exit path of its iteration - the wrapped iterator
\* exhausted, the consumer closing the generator early, the wrapped iterator
\* raising an error - the private event loop is closed, the executor is
\* shut down and a file held open by a wrapped AsyncFileIterator is closed.
C40_ReleasedOnEveryExit ==
    /\ run.pc = "iterator" => YieldedInOrder
    /\ IterationOver => (LoopAndExecutorReleased /\ FileOfIteratorClosed)

\* What holds of the exits: the items come in order; after exhaustion
\* everything is released; after an early close the loop and the executor
\* are released; after an error the file is closed
C40_ReleasedInPart ==
    /\ run.pc = "iterator" => YieldedInOrder
    /\ (IterationOver /\ run.exit = "exhausted") =>
          (LoopAndExecutorReleased /\ FileOfIteratorClosed)
    /\ (IterationOver /\ run.exit = "closed") => LoopAndExecutorReleased
    /\ (IterationOver /\ run.exit = "raised") => FileOfIteratorClosed

\* A read raised: the generator ended with its loop open and its executor
\* running
C40_LoopLeftOpen ==
    /\ IterationOver /\ run.exit = "raised" /\ run.error = "OSError"
    /\ Len(run.yielded) = 1
    /\ run.loop = "open" /\ run.executor = "running"
    /\ run.handle.file_obj = "closed"

\* The consumer closed the generator after the first item: the file is open
C40_FileLeftOpen ==
    /\ IterationOver /\ run.exit = "closed"
    /\ Len(run.yielded) = 1
    /\ run.agen = "suspended"
    /\ run.handle.file_obj = "open" /\ ~run.handle.closed
    /\ LoopAndExecutorReleased

\* A file of more than two blocks was iterated to its end
C40_Exhausted ==
    /\ IterationOver /\ run.exit = "exhausted"
    /\ Len(run.yielded) = 3
    /\ LoopAndExecutorReleased /\ FileOfIteratorClosed

=============================================================================
